---- MODULE Spec2Model ----
(***************************************************************************)
(* Model of the MaterializationEngine live query (blueprints/client/api2): *)
(* version selection, snapshot query, live delta query and the             *)
(* reconciliation of the two (combine_queries), and the root-id join       *)
(* check (check_joins).                                                    *)
(*                                                                         *)
(* Time is a bounded range of integers.  A data frame is a record          *)
(*   [none |-> BOOLEAN, cols |-> set of column names, n |-> [id -> Nat]]   *)
(* where n[id] is the number of rows of the frame that carry the row       *)
(* identifier id (a pandas frame may hold the same identifier twice) and   *)
(* none says that the Python value is None.  The values of the created     *)
(* and deleted columns of a delta row are those of the live table, so the  *)
(* masks of combine_queries read them from the row history.                *)
(*                                                                         *)
(* Modelled from the specification, their code not being part of the       *)
(* sources: the content of a frozen snapshot (FrozenRows), the time window *)
(* of QueryManager.apply_table_crud_filter (CrudFilter), the two results   *)
(* of collect_crud_columns (CrudColumns, CreatedColumns) and the table's   *)
(* last_modified time.  update_rootids changes root-id values only.        *)
(*                                                                         *)
(* The limit of a request and its user filters (apply_filters) are         *)
(* modelled on a frame of rows, a row being a function from the filter     *)
(* columns to values.                                                      *)
(*                                                                         *)
(* The live-update workflow (workflows/ingest_new_annotations) of one      *)
(* table: a segmentation row carries one supervoxel id and one root id per *)
(* position column, a supervoxel id is the answer of the volume for the    *)
(* annotation, a root id is represented by the time it was resolved at.    *)
(* One attempt of live_update_task is one step; a collaborator (the store, *)
(* the volume, the chunked graph) may fail during any attempt.  Modelled   *)
(* from the specification: the chunking of the id range                    *)
(* (chunk_supervoxel_ids_task), query_id_range, upsert, fin and            *)
(* update_metadata, and the answers of the volume and of the chunked       *)
(* graph.  The metadata reaches a task as the text of its message: the     *)
(* materialization time stamp is written by isoformat() and parsed by      *)
(* strptime with a fraction of a second.                                   *)
(*                                                                         *)
(* The version records (materialize/api and                                *)
(* workflows/versioned_materialization): create_new_version and the        *)
(* creation of a virtual public version.  A time is a number of days, a    *)
(* Version row is a record, its id its position in analysis_versions.      *)
(* Modelled from the specification: the Version rows stored before the     *)
(* first call.                                                             *)
(*                                                                         *)
(* The frozen materialization (workflows/versioned_materialization):       *)
(* frozen_materialization sends one chain per valid table; each task can   *)
(* also be called with the metadata of a table.  The result of make_url is *)
(* an object without the methods of a string.                              *)
(*                                                                         *)
(* Eleven specifications:                                                  *)
(*   Spec         one LiveTableQuery.post request, step by step            *)
(*   SpecSym      the reconciliation applied from an older and a newer     *)
(*                anchor of the same row history                           *)
(*   SpecJoins    check_joins applied to join specifications               *)
(*   SpecRequest  the limit and the user filters of a request              *)
(*   SpecLive     one run of the live-update workflow of a table           *)
(*   SpecTwice    live_update_task run twice on one chunk                  *)
(*   SpecCombine  the reconciliation of filtered query results             *)
(*   SpecVersions create_new_version and the virtual public version        *)
(*   SpecFrozen   the frozen materialization and its tasks                 *)
(*   SpecAttempt  one attempt of live_update_task on a chunk of a synapse  *)
(*                table, step by step                                      *)
(*   SpecRace     two create_new_version tasks running concurrently        *)
(***************************************************************************)
EXTENDS Integers, Sequences, FiniteSets

\* ------------------------------------------------------------------ bounds
MaxTime == 3
MaxRows == 2
MaxVersions == 2
MaxJoins == 1
MaxCols == 1

Times == 0..MaxTime
RowIds == 1..MaxRows

\* a null timestamp (deleted IS NULL, pandas NaT): every comparison with it is false
NaT == 0 - 1

\* ------------------------------------------------------------------ state
VARIABLES
    versions,        \* the AnalysisVersion records
    rows,            \* the live annotation table: rows[id] = [created, deleted]
    user_timestamp,  \* user_data["timestamp"]
    pc,              \* position of LiveTableQuery.post
    past_ver,        \* result of get_closest_versions
    future_ver,
    chosen_version,
    mat_df,          \* result of execute_materialized_query
    prod_df,         \* result of execute_production_query (None when not issued)
    executed,        \* the queries executed so far: subset of {"mat", "prod"}
    response,        \* [status, error, df] of the request
    anchor_old,      \* reconciliation harness: anchor older than the request
    anchor_new,      \* reconciliation harness: anchor newer than the request
    fwd_out,         \* outcome of projecting forward from anchor_old
    bwd_out,         \* outcome of projecting backward from anchor_new
    joins,           \* join specifications handed to check_joins
    join_out,        \* outcome of check_joins
    parsed_obj,      \* request.parsed_obj as the client sent it
    user_data,       \* the same dictionary as LiveTableQuery.post updates and reads it
    req_df,          \* the frame handed to apply_filters
    filtered,        \* outcome of apply_filters: [exc, df]
    req_pc,          \* position of the request harness
    annotations,     \* the annotation table: annotations[id] = [valid]
    seg,             \* the segmentation table: seg[id] = NoRow or [supervoxel_id, root_id]
    seg_at_start,    \* the segmentation table when the workflow (or the first run) started
    seg_metadata,    \* the SegmentationMetadata row of the table: [exists, last_updated]
    mat_metadata,    \* the metadata dictionary of get_materialization_info
    chunk_tasks,     \* per chunk, the live_update_task of the chord header
    wf_pc,           \* position of the live-update workflow of the table
    twice_chunk,     \* idempotence harness: the chunk processed twice
    seg_after_first, \* idempotence harness: the segmentation table after the first run
    twice_pc,        \* idempotence harness: position
    attempt,         \* attempt harness: the record of the one attempt of live_update_task
    analysis_versions, \* the AnalysisVersion table of the live database, in id order
    analysis_tables, \* the AnalysisTable table of the live database, in id order
    version_out,     \* outcome of the last operation called on its own
    source,          \* the annotation tables of the live database
    analysis_db,     \* the database of the version that is materialized
    frozen_pc,       \* per annotation table, the position of its chain of the frozen run
    version_tasks    \* per concurrent create_new_version task: [pc, new_version_number]

inputVars == <<versions, rows, user_timestamp>>
postVars == <<pc, past_ver, future_ver, chosen_version, mat_df, prod_df, executed, response>>
symVars == <<anchor_old, anchor_new, fwd_out, bwd_out>>
joinVars == <<joins, join_out>>
queryVars == <<inputVars, postVars, symVars, joinVars>>
requestVars == <<parsed_obj, user_data, req_df, filtered, req_pc>>
tableVars == <<annotations, seg, seg_at_start, seg_metadata, mat_metadata>>
liveVars == <<chunk_tasks, wf_pc>>
twiceVars == <<twice_chunk, seg_after_first, twice_pc, attempt>>
versionVars == <<analysis_versions, analysis_tables, version_out>>
snapshotVars == <<source, analysis_db, frozen_pc>>
raceVars == <<version_tasks>>
frozenVars == <<versionVars, snapshotVars, raceVars>>
otherVars == <<requestVars, tableVars, liveVars, twiceVars, frozenVars>>
vars == <<inputVars, postVars, symVars, joinVars, otherVars>>

\* ------------------------------------------------------------------ data
Datastack == "ds"
Datastacks == {"ds", "other"}

IdCol == "id"
CreatedCol == "created"
DeletedCol == "deleted"
SupercededCol == "superceded_id"
DataCols == {IdCol, "pt_position"}

NoVersion == [version |-> 0, time_stamp |-> NaT, valid |-> FALSE, datastack |-> "none"]

NoCount == [i \in RowIds |-> 0]
NoneDF == [none |-> TRUE, cols |-> {}, n |-> NoCount]
Frame(cols, ids) == [none |-> FALSE, cols |-> cols, n |-> [i \in RowIds |-> IF i \in ids THEN 1 ELSE 0]]
Ids(df) == {i \in RowIds : df.n[i] > 0}
NumRows(df) ==
    LET S[k \in 0..MaxRows] == IF k = 0 THEN 0 ELSE S[k - 1] + df.n[k]
    IN S[MaxRows]

NoResponse == [status |-> 0, error |-> "", df |-> NoneDF]
Ok(df) == [status |-> 200, error |-> "", df |-> df]
Abort(status, error) == [status |-> status, error |-> error, df |-> NoneDF]

Created(id) == rows[id].created
Deleted(id) == rows[id].deleted

\* comparisons of a column value with a timestamp: false on a null value
Gt(a, b) == a # NaT /\ b # NaT /\ a > b
Lt(a, b) == a # NaT /\ b # NaT /\ a < b

\* table metadata last_modified: the time of the last insertion or deletion
Max(S) == CHOOSE x \in S : \A y \in S : y <= x
last_modified ==
    Max({0} \cup {Created(i) : i \in DOMAIN rows}
            \cup {Deleted(i) : i \in {j \in DOMAIN rows : Deleted(j) # NaT}})

\* ------------------------------------------------------------------ version selector
\* mutant: the comparison with the requested time is not strict
PastCandidates_NotStrict(vs, ds, ts) ==
    {v \in vs : v.datastack = ds /\ v.valid = TRUE /\ v.time_stamp <= ts}

PastCandidates(vs, ds, ts) ==
    {v \in vs : v.datastack = ds /\ v.valid = TRUE /\ v.time_stamp < ts}

\* mutant: the comparison with the requested time is not strict
FutureCandidates_NotStrict(vs, ds, ts) ==
    {v \in vs : v.datastack = ds /\ v.valid = TRUE /\ v.time_stamp >= ts}

FutureCandidates(vs, ds, ts) ==
    {v \in vs : v.datastack = ds /\ v.valid = TRUE /\ v.time_stamp > ts}

\* order_by(time_stamp.desc()).first(): None, or a candidate of greatest time_stamp
FirstDesc(cands) ==
    IF cands = {} THEN {NoVersion}
    ELSE {v \in cands : \A w \in cands : w.time_stamp <= v.time_stamp}

FirstAsc(cands) ==
    IF cands = {} THEN {NoVersion}
    ELSE {v \in cands : \A w \in cands : w.time_stamp >= v.time_stamp}

\* ------------------------------------------------------------------ snapshot query
\* the rows of the frozen copy of the table at version time ts
FrozenRows(ts) ==
    {i \in DOMAIN rows : Created(i) <= ts /\ (Deleted(i) = NaT \/ Deleted(i) > ts)}

\* MaterializedMetadata.row_count of the frozen table
MatRowCount(ts) == Cardinality(FrozenRows(ts))

\* QueryManager on the frozen database, filtered to valid rows
SnapshotQuery(ts) == Frame(DataCols, FrozenRows(ts))

execute_materialized_query(ts) ==
    IF MatRowCount(ts) # 0 THEN SnapshotQuery(ts) ELSE NoneDF

\* ------------------------------------------------------------------ delta query
\* apply_table_crud_filter: created or deleted inside [start, end)
CrudFilter(start, end) ==
    {i \in DOMAIN rows :
        \/ (Created(i) >= start /\ Created(i) < end)
        \/ (Deleted(i) # NaT /\ Deleted(i) >= start /\ Deleted(i) < end)}

execute_production_query(chosen_ts, user_ts) ==
    IF chosen_ts < user_ts
    THEN Ok(Frame(DataCols \cup {CreatedCol, DeletedCol, SupercededCol},
                  CrudFilter(chosen_ts, user_ts)))
    ELSE IF chosen_ts > user_ts
    THEN Ok(Frame(DataCols \cup {CreatedCol, DeletedCol, SupercededCol},
                  CrudFilter(user_ts, chosen_ts)))
    ELSE Abort(400, "do not use live live query to query a materialized timestamp")

\* ------------------------------------------------------------------ reconciler
\* collect_crud_columns: (crud_columns, created_columns) of the column-name map.  The
\* created column is not among crud_columns: combine_queries drops crud_columns and then
\* created_columns from the same frame with a drop that raises on a missing label.
CrudColumns == {DeletedCol, SupercededCol}
CreatedColumns == {CreatedCol}

\* DataFrame.drop(columns, axis=1): KeyError on a missing label
CanDrop(df, cols) == cols \subseteq df.cols
Drop(df, cols) == [df EXCEPT !.cols = @ \ cols]
\* DataFrame.drop of row labels, DataFrame[mask], pd.concat
DropIds(df, ids) == [df EXCEPT !.n = [i \in RowIds |-> IF i \in ids THEN 0 ELSE @[i]]]
SelectIds(df, ids) == [df EXCEPT !.n = [i \in RowIds |-> IF i \in ids THEN @[i] ELSE 0]]
Concat(a, b) == [none |-> FALSE, cols |-> a.cols \cup b.cols,
                 n |-> [i \in RowIds |-> a.n[i] + b.n[i]]]

\* the masks of the forward branch, per delta row
DeletedBetween(i, chosen_ts, user_ts) ==
    Gt(Deleted(i), chosen_ts) /\ Lt(Deleted(i), user_ts)

CreatedBetween(i, chosen_ts, user_ts) ==
    Gt(Created(i), chosen_ts) /\ Lt(Created(i), user_ts)

ToDeleteInMat(prod, chosen_ts, user_ts) ==
    {i \in Ids(prod) : DeletedBetween(i, chosen_ts, user_ts)
                       /\ ~CreatedBetween(i, chosen_ts, user_ts)}

ToAddInMat(prod, chosen_ts, user_ts) ==
    {i \in Ids(prod) : CreatedBetween(i, chosen_ts, user_ts)
                       /\ ~DeletedBetween(i, chosen_ts, user_ts)}

\* mutant: the delta rows deleted inside the window are not dropped
CutProd_KeepDeleted(prod, chosen_ts, user_ts) == prod

CutProd(prod, chosen_ts, user_ts) ==
    DropIds(prod, {i \in Ids(prod) : DeletedBetween(i, chosen_ts, user_ts)})

\* both results present: the delta rows that survive, then the snapshot rows
CombineBoth(mat, prod, chosen_ts, user_ts) ==
    LET cut == Drop(CutProd(prod, chosen_ts, user_ts), CrudColumns)
        created_columns == {c \in CreatedColumns : c \notin mat.cols}
        cut_prod_df == IF created_columns # {} THEN Drop(cut, created_columns) ELSE cut
        kept_mat == DropIds(mat, ToDeleteInMat(prod, chosen_ts, user_ts))
    IN  IF ~CanDrop(prod, CrudColumns) \/ ~CanDrop(cut, created_columns)
        THEN Abort(500, "KeyError")
        ELSE Ok(Concat(cut_prod_df, kept_mat))

\* no snapshot result: the delta rows to add
CombineProdOnly(prod, chosen_ts, user_ts) ==
    IF ~CanDrop(prod, CrudColumns)
    THEN Abort(500, "KeyError")
    ELSE Ok(Drop(SelectIds(prod, ToAddInMat(prod, chosen_ts, user_ts)), CrudColumns))

\* the forward branch, chosen_timestamp < user_timestamp
CombineForward(mat, prod, chosen_ts, user_ts) ==
    IF ~mat.none
    THEN CombineBoth(mat, prod, chosen_ts, user_ts)
    ELSE CombineProdOnly(prod, chosen_ts, user_ts)

\* the backward branch: its deleted_between compares the list
\* [column_names[table]["deleted"]] with a datetime, which raises TypeError
CombineBackward(mat, prod, chosen_ts, user_ts) ==
    Abort(500, "TypeError")

\* mutant: with neither result the reconciliation returns an empty frame
combine_queries_EmptyOnNoResults(mat_in, prod, chosen_ts, user_ts) ==
    IF ~mat_in.none /\ NumRows(mat_in) = 0 /\ prod.none
    THEN Ok(Drop(mat_in, CrudColumns))
    ELSE
      LET mat == IF ~mat_in.none /\ NumRows(mat_in) = 0 THEN NoneDF ELSE mat_in
      IN  IF prod.none /\ mat.none
          THEN Ok(Frame(DataCols, {}))
          ELSE IF prod.none
          THEN Ok(Drop(mat, CrudColumns))
          ELSE IF chosen_ts < user_ts
          THEN CombineForward(mat, prod, chosen_ts, user_ts)
          ELSE CombineBackward(mat, prod, chosen_ts, user_ts)

combine_queries(mat_in, prod, chosen_ts, user_ts) ==
    IF ~mat_in.none /\ NumRows(mat_in) = 0 /\ prod.none
    THEN Ok(Drop(mat_in, CrudColumns))
    ELSE
      LET mat == IF ~mat_in.none /\ NumRows(mat_in) = 0 THEN NoneDF ELSE mat_in
      IN  IF prod.none /\ mat.none
          THEN Abort(400, "This query returned no results")
          ELSE IF prod.none
          THEN Ok(Drop(mat, CrudColumns))
          ELSE IF chosen_ts < user_ts
          THEN CombineForward(mat, prod, chosen_ts, user_ts)
          ELSE CombineBackward(mat, prod, chosen_ts, user_ts)

\* ------------------------------------------------------------------ LiveTableQuery.post
NoAnchor(p, f) == p = NoVersion /\ f = NoVersion

\* mutant: the anchor is the version nearer to the requested time
ChooseAnchor_Closer(p, f) ==
    IF p = NoVersion THEN f
    ELSE IF f = NoVersion THEN p
    ELSE IF f.time_stamp - user_timestamp < user_timestamp - p.time_stamp THEN f ELSE p

ChooseAnchor(p, f) == IF p # NoVersion THEN p ELSE f

\* mutant: the delta query is issued only when the table changed after the anchor
DeltaIssued_AnchorOnly(chosen_ts, user_ts) ==
    last_modified > chosen_ts

DeltaIssued(chosen_ts, user_ts) ==
    last_modified > chosen_ts \/ last_modified > user_ts

SelectVersions ==
    /\ pc = "start"
    /\ \E p \in FirstDesc(PastCandidates(versions, Datastack, user_timestamp)),
          f \in FirstAsc(FutureCandidates(versions, Datastack, user_timestamp)) :
          /\ past_ver' = p
          /\ future_ver' = f
          /\ IF NoAnchor(p, f)
             THEN /\ response' = Abort(400, "there is no future or past version for this timestamp")
                  /\ pc' = "done"
                  /\ UNCHANGED chosen_version
             ELSE /\ chosen_version' = ChooseAnchor(p, f)
                  /\ pc' = "materialized_query"
                  /\ UNCHANGED response
    /\ UNCHANGED <<inputVars, mat_df, prod_df, executed, symVars, joinVars, otherVars>>

MaterializedQuery ==
    /\ pc = "materialized_query"
    /\ mat_df' = execute_materialized_query(chosen_version.time_stamp)
    /\ executed' = IF MatRowCount(chosen_version.time_stamp) # 0
                   THEN executed \cup {"mat"} ELSE executed
    /\ pc' = "production_query"
    /\ UNCHANGED <<inputVars, past_ver, future_ver, chosen_version, prod_df, response,
                   symVars, joinVars, otherVars>>

ProductionQuery ==
    /\ pc = "production_query"
    /\ IF DeltaIssued(chosen_version.time_stamp, user_timestamp)
       THEN LET r == execute_production_query(chosen_version.time_stamp, user_timestamp)
            IN  IF r.status = 200
                THEN /\ prod_df' = r.df
                     /\ executed' = executed \cup {"prod"}
                     /\ pc' = "combine"
                     /\ UNCHANGED response
                ELSE /\ response' = r
                     /\ pc' = "done"
                     /\ UNCHANGED <<prod_df, executed>>
       ELSE /\ prod_df' = NoneDF
            /\ pc' = "combine"
            /\ UNCHANGED <<executed, response>>
    /\ UNCHANGED <<inputVars, past_ver, future_ver, chosen_version, mat_df, symVars, joinVars, otherVars>>

Combine ==
    /\ pc = "combine"
    /\ response' = combine_queries(mat_df, prod_df, chosen_version.time_stamp, user_timestamp)
    /\ pc' = "done"
    /\ UNCHANGED <<inputVars, past_ver, future_ver, chosen_version, mat_df, prod_df,
                   executed, symVars, joinVars, otherVars>>

\* ------------------------------------------------------------------ reconciliation from a given anchor
\* the part of post after the anchor is chosen: snapshot query, delta query, combine
Reconcile(anchor_ts) ==
    LET mat == execute_materialized_query(anchor_ts)
        prod == IF DeltaIssued(anchor_ts, user_timestamp)
                THEN execute_production_query(anchor_ts, user_timestamp).df
                ELSE NoneDF
    IN  combine_queries(mat, prod, anchor_ts, user_timestamp)

ProjectForward ==
    /\ fwd_out = NoResponse
    /\ fwd_out' = Reconcile(anchor_old)
    /\ UNCHANGED <<inputVars, postVars, anchor_old, anchor_new, bwd_out, joinVars, otherVars>>

ProjectBackward ==
    /\ bwd_out = NoResponse
    /\ bwd_out' = Reconcile(anchor_new)
    /\ UNCHANGED <<inputVars, postVars, anchor_old, anchor_new, fwd_out, joinVars, otherVars>>

\* ------------------------------------------------------------------ queries of a request with a user filter
\* The part of post after the anchor is chosen, for a request whose payload carries a
\* filter: both query managers are configured with the payload (configure_query), so
\* each result holds the rows of its query that the filter selects, sel; the snapshot
\* result may then have no row.
FilteredQueries ==
    /\ pc = "filtered_query"
    /\ \E sel \in SUBSET (DOMAIN rows) :
           /\ mat_df' = IF MatRowCount(chosen_version.time_stamp) # 0
                         THEN SelectIds(SnapshotQuery(chosen_version.time_stamp), sel)
                         ELSE NoneDF
           /\ prod_df' = IF DeltaIssued(chosen_version.time_stamp, user_timestamp)
                          THEN SelectIds(execute_production_query(chosen_version.time_stamp,
                                                                  user_timestamp).df, sel)
                          ELSE NoneDF
    /\ executed' = (IF MatRowCount(chosen_version.time_stamp) # 0 THEN {"mat"} ELSE {})
                       \cup (IF DeltaIssued(chosen_version.time_stamp, user_timestamp)
                             THEN {"prod"} ELSE {})
    /\ pc' = "combine"
    /\ UNCHANGED <<inputVars, past_ver, future_ver, chosen_version, response,
                   symVars, joinVars, otherVars>>

\* ------------------------------------------------------------------ join check
\* a column name is a sequence of its "_"-separated parts: pt_root_id = <<"pt", "root_id">>
ColumnNames == {<<"id">>, <<"target", "id">>, <<"pt", "root_id">>, <<"root_id", "count">>}

EndsWithRootId(name) == name[Len(name)] = "root_id"

\* a join column is a string, [is_list |-> FALSE, names |-> <<name>>], or a list of strings
ColumnSpecs ==
    {[is_list |-> FALSE, names |-> <<c>>] : c \in ColumnNames}
    \cup UNION {{[is_list |-> TRUE, names |-> l] : l \in [1..k -> ColumnNames]} : k \in 0..MaxCols}

\* type(col) == "str" compares a type with a string: never equal
TypeEqualsStr(col) == FALSE

TypeEqualsList(col) == col.is_list

\* "ok" (returns), "abort400", or "AttributeError" (str has no method endwith)
check_column_for_root_id(col) ==
    IF TypeEqualsStr(col)
    THEN IF EndsWithRootId(col.names[1]) THEN "abort400" ELSE "ok"
    ELSE IF TypeEqualsList(col)
    THEN IF col.names # <<>> THEN "AttributeError" ELSE "ok"
    ELSE "ok"

RECURSIVE check_joins(_)
check_joins(js) ==
    IF js = <<>> THEN "ok"
    ELSE LET first == check_column_for_root_id(Head(js).column)
             second == check_column_for_root_id(Head(js).joined_column)
         IN  IF first # "ok" THEN first
             ELSE IF second # "ok" THEN second
             ELSE check_joins(Tail(js))

CheckJoins ==
    /\ join_out = ""
    /\ join_out' = check_joins(joins)
    /\ UNCHANGED <<inputVars, postVars, symVars, joins, otherVars>>

\* ------------------------------------------------------------------ request limit and user filters
\* values of a filterable column; the largest limit a client asks for; the server ceiling
\* current_app.config["QUERY_LIMIT_SIZE"]
MaxValue == 1
MaxLimit == 3
QUERY_LIMIT_SIZE == 2

Values == 0..MaxValue
QueryTable == "t"
FilterColumns == {"cell_type"}

\* the key "limit" is absent from the payload
NoLimit == 0 - 1

\* a filter dictionary: None, or a set of (table, filter) items, a filter being a set
\* of (column, value) items with one item per column
NoneDict == [none |-> TRUE, items |-> {}]
Dict(items) == [none |-> FALSE, items |-> items]
IsMap(f) == \A a \in f : \A b \in f : a[1] = b[1] => a = b

\* Python truth value of a dictionary or None
Truthy(d) == ~d.none /\ d.items # {}

Min(a, b) == IF a < b THEN a ELSE b

\* mutant: the requested limit is used as it came
EffectiveLimit_Unclamped(ud) ==
    IF ud.limit = NoLimit THEN QUERY_LIMIT_SIZE ELSE ud.limit

\* min(QUERY_LIMIT_SIZE, user_data.get("limit", QUERY_LIMIT_SIZE))
EffectiveLimit(ud) ==
    Min(QUERY_LIMIT_SIZE, IF ud.limit = NoLimit THEN QUERY_LIMIT_SIZE ELSE ud.limit)

\* df = df[df[colname].isin(val)] for every (col, val) of every table of d
KeepIsIn(df, d) ==
    LET Test(r) == \A it \in d.items : \A cv \in it[2] : r[cv[1]] \in cv[2]
    IN  SelectSeq(df, Test)

\* df = df[~df[colname].isin(val)] for every (col, val) of every table of d
DropIsIn(df, d) ==
    LET Test(r) == \A it \in d.items : \A cv \in it[2] : r[cv[1]] \notin cv[2]
    IN  SelectSeq(df, Test)

\* df = df[df[colname] == val] for every (col, val) of every table of d
KeepEqual(df, d) ==
    LET Test(r) == \A it \in d.items : \A cv \in it[2] : r[cv[1]] = cv[2]
    IN  SelectSeq(df, Test)

\* The loop under "if filter_out_dict" iterates filter_in_dict: it raises AttributeError
\* on None.items() when no inclusion filter was sent, and otherwise excludes the values
\* of the inclusion filter.
apply_filters(df, ud) ==
    LET after_in == IF Truthy(ud.filter_in_dict)
                    THEN KeepIsIn(df, ud.filter_in_dict) ELSE df
        after_out == IF Truthy(ud.filter_out_dict)
                     THEN DropIsIn(after_in, ud.filter_in_dict) ELSE after_in
        after_equal == IF Truthy(ud.filter_equal_dict)
                       THEN KeepEqual(after_out, ud.filter_equal_dict) ELSE after_out
    IN  IF Truthy(ud.filter_out_dict) /\ ud.filter_in_dict.none
        THEN [exc |-> "AttributeError", df |-> <<>>]
        ELSE [exc |-> "", df |-> after_equal]

NotFiltered == [exc |-> "", df |-> <<>>]

\* LiveTableQuery.post, first statement: the limit of the payload is replaced
ClampLimit ==
    /\ req_pc = "limit"
    /\ user_data' = [user_data EXCEPT !.limit = EffectiveLimit(user_data)]
    /\ req_pc' = "apply_filters"
    /\ UNCHANGED <<queryVars, parsed_obj, req_df, filtered, tableVars, liveVars, twiceVars, frozenVars>>

\* LiveTableQuery.post, after combine_queries: the user filters are applied to the result
ApplyFilters ==
    /\ req_pc = "apply_filters"
    /\ filtered' = apply_filters(req_df, user_data)
    /\ req_pc' = "done"
    /\ UNCHANGED <<queryVars, parsed_obj, user_data, req_df, tableVars, liveVars, twiceVars, frozenVars>>

\* ------------------------------------------------------------------ live update: tables and services
\* the largest annotation id of the table, the chunk size of the table's metadata
MaxAnnoId == 3
ChunkSize == 2

\* live_update_task: max_retries of the task decorator, countdown of self.retry
max_retries == 6
countdown == 3

AnnoIds == 1..MaxAnnoId

\* a null column value (SQL NULL, np.nan)
NaN == 0 - 1

\* A segmentation row holds one supervoxel id and one root id per position column of
\* the schema.  The table is keyed by the row id (its primary key), so it is a function
\* of the id; NoRow says that the table holds no row of that id.
NoRow == [supervoxel_id |-> <<>>, root_id |-> <<>>]
SegRow(svs, roots) == [supervoxel_id |-> svs, root_id |-> roots]

NoSegMetadata == [exists |-> FALSE, last_updated |-> NaT]
NoMatMetadata == [max_id |-> 0, chunk_size |-> 0, position_columns |-> <<>>,
                  last_updated_time_stamp |-> NaT, materialization_time_stamp |-> NaT,
                  microsecond |-> 0]

\* datetime.datetime.utcnow(): later than every time already stored
utcnow ==
    1 + Max({0} \cup {seg_metadata.last_updated}
                \cup UNION {{seg[i].root_id[k] : k \in DOMAIN seg[i].root_id} : i \in DOMAIN seg})

\* the schema of the annotation table: one bound spatial point
SchemaPositionColumns == <<"pt_position">>

\* the microsecond of a datetime: 0 (on a whole second) or not
Microseconds == {0, 1}

\* one dictionary per annotation table with a max id (one table here); microsecond is
\* that of the utcnow() taken as the materialization time stamp
get_materialization_info(microsecond) ==
    LET materialization_time_stamp == utcnow
    IN  [max_id |-> MaxAnnoId,
         chunk_size |-> ChunkSize,
         position_columns |-> SchemaPositionColumns,
         last_updated_time_stamp |->
             IF seg_metadata.last_updated # NaT THEN seg_metadata.last_updated
             ELSE materialization_time_stamp,
         materialization_time_stamp |-> materialization_time_stamp,
         microsecond |-> microsecond]

\* The metadata reaches a task as the text the message carries: a datetime is written
\* by isoformat(), which leaves the fraction out when the microsecond is 0.
isoformat(time, microsecond) == [time |-> time, fraction |-> microsecond # 0]

\* datetime.strptime(text, '%Y-%m-%dT%H:%M:%S.%f'): ValueError on a text without fraction
strptime(text) ==
    IF text.fraction THEN [exc |-> "", time |-> text.time]
    ELSE [exc |-> "ValueError", time |-> NaT]

\* chunk_supervoxel_ids_task: contiguous id ranges <<start, end>> that cover 1..max_id
NumChunks(md) == (md.max_id + md.chunk_size - 1) \div md.chunk_size
chunk_supervoxel_ids_task(md) ==
    [c \in 1..NumChunks(md) |-> <<(c - 1) * md.chunk_size + 1, c * md.chunk_size + 1>>]

\* query_id_range(AnnotationModel.id, chunk[0], chunk[1])
query_id_range(chunk) == {i \in AnnoIds : chunk[1] <= i /\ i < chunk[2]}

\* cv.download_point: the supervoxel under the point of annotation i
download_point(i) == i

\* cg.get_roots(supervoxels, time_stamp): a root id is represented by the time it was
\* resolved at
get_roots(sv, ts) == ts

\* ------------------------------------------------------------------ live update: the pipeline of one chunk
\* A step returns a frame [exc, none, ids, supervoxel_id, root_id]: exc names the
\* exception that left the step ("" when it returned), none says that it returned None,
\* ids are the row ids of the frame and the two functions give the columns per id.
\* fault names the collaborator that fails during the attempt: "none", "scan" (the store,
\* while the annotations are read), "cloudvolume", "root_read" (the store, while the
\* current root ids are read), "chunkedgraph", "upsert" (the store, during the upsert).
Faults == {"none", "scan", "cloudvolume", "root_read", "chunkedgraph", "upsert"}

NullColumns == [k \in DOMAIN mat_metadata.position_columns |-> NaN]
NoColumns == [i \in AnnoIds |-> <<>>]

Raise(e) ==
    [exc |-> e, none |-> FALSE, ids |-> {}, supervoxel_id |-> NoColumns, root_id |-> NoColumns]
NoneData ==
    [exc |-> "", none |-> TRUE, ids |-> {}, supervoxel_id |-> NoColumns, root_id |-> NoColumns]
Data(ids, svs, roots) ==
    [exc |-> "", none |-> FALSE, ids |-> ids, supervoxel_id |-> svs, root_id |-> roots]

\* mutant: the scan reads the valid annotations of the whole table, not of the id range
get_annotations_with_missing_supervoxel_ids_WholeTable(chunk, fault) ==
    LET anno_ids == {i \in AnnoIds : annotations[i].valid}
    IN  IF fault = "scan" THEN Raise("UnboundLocalError")
        ELSE IF anno_ids = {} THEN Raise("KeyError")
        ELSE Data(anno_ids,
                  [i \in AnnoIds |-> IF i \in anno_ids /\ seg[i] # NoRow
                                     THEN seg[i].supervoxel_id
                                     ELSE IF i \in anno_ids THEN NullColumns ELSE <<>>],
                  NoColumns)

\* The valid annotations of the id range, merged with their stored supervoxel ids.
\* A store error is caught and leaves anno_ids unbound (UnboundLocalError at its next
\* use); without rows the frame has no column and ['id'] raises KeyError.
get_annotations_with_missing_supervoxel_ids(chunk, fault) ==
    LET anno_ids == {i \in query_id_range(chunk) : annotations[i].valid}
    IN  IF fault = "scan" THEN Raise("UnboundLocalError")
        ELSE IF anno_ids = {} THEN Raise("KeyError")
        ELSE Data(anno_ids,
                  [i \in AnnoIds |-> IF i \in anno_ids /\ seg[i] # NoRow
                                     THEN seg[i].supervoxel_id
                                     ELSE IF i \in anno_ids THEN NullColumns ELSE <<>>],
                  NoColumns)

\* mutant: every supervoxel column is looked up, null or not
get_cloudvolume_supervoxel_ids_AlwaysLookup(materialization_data, fault) ==
    IF fault = "cloudvolume" THEN Raise("CloudVolumeError")
    ELSE [materialization_data EXCEPT !.supervoxel_id =
             [i \in AnnoIds |->
                 [k \in DOMAIN materialization_data.supervoxel_id[i] |-> download_point(i)]]]

\* a point lookup for every supervoxel column that is null (np.isnan)
get_cloudvolume_supervoxel_ids(materialization_data, fault) ==
    IF fault = "cloudvolume" THEN Raise("CloudVolumeError")
    ELSE [materialization_data EXCEPT !.supervoxel_id =
             [i \in AnnoIds |->
                 [k \in DOMAIN materialization_data.supervoxel_id[i] |->
                     IF materialization_data.supervoxel_id[i][k] = NaN
                     THEN download_point(i)
                     ELSE materialization_data.supervoxel_id[i][k]]]]

\* root_ids_df before the lookup: the stored root ids of the rows are read (a store
\* error is caught and reads as no stored row) and merged with the frame, an inner merge
\* when there are stored rows; without stored rows every root-id column is null
root_ids_df(materialization_data, fault) ==
    LET anno_ids == materialization_data.ids
        current_root_ids == IF fault = "root_read" THEN {}
                            ELSE {i \in anno_ids : seg[i] # NoRow}
        merged == IF current_root_ids # {} THEN current_root_ids ELSE anno_ids
    IN  [ids |-> merged,
         root_id |-> [i \in AnnoIds |->
                         IF i \in current_root_ids THEN seg[i].root_id
                         ELSE IF i \in merged THEN NullColumns ELSE <<>>]]

\* mutant: a row is missing root ids as soon as one of its root-id columns is null
MissingRootRows_AnyNull(ids, roots) ==
    {i \in ids : \E k \in DOMAIN roots[i] : roots[i][k] = NaN}

\* the rows of the frame whose root-id columns are all null
MissingRootRows(ids, roots) ==
    {i \in ids : \A k \in DOMAIN roots[i] : roots[i][k] = NaN}

\* mutant: the root ids are requested for the supervoxel ids stored in the table, not
\* for those of the frame
get_new_root_ids_StoredSupervoxels(materialization_data, fault) ==
    LET materialization_time_stamp ==
            strptime(isoformat(mat_metadata.materialization_time_stamp,
                               mat_metadata.microsecond))
        df == root_ids_df(materialization_data, fault)
        merged == df.ids
        current == df.root_id
        missing == MissingRootRows(merged, current)
        looked_up == [i \in AnnoIds |->
                         IF i \in missing
                         THEN [k \in DOMAIN current[i] |->
                                  IF seg[i] = NoRow \/ seg[i].supervoxel_id[k] = NaN THEN NaN
                                  ELSE get_roots(seg[i].supervoxel_id[k],
                                                 materialization_time_stamp.time)]
                         ELSE current[i]]
    IN  IF materialization_time_stamp.exc # "" THEN Raise(materialization_time_stamp.exc)
        ELSE IF fault = "chunkedgraph" THEN Raise("ChunkedGraphError")
        ELSE IF missing = {} THEN NoneData
        ELSE Data(merged, materialization_data.supervoxel_id, looked_up)

\* mutant: the root ids are requested at the last-updated time of the table
get_new_root_ids_LastUpdated(materialization_data, fault) ==
    LET materialization_time_stamp ==
            strptime(isoformat(mat_metadata.materialization_time_stamp,
                               mat_metadata.microsecond))
        df == root_ids_df(materialization_data, fault)
        merged == df.ids
        current == df.root_id
        missing == MissingRootRows(merged, current)
        looked_up == [i \in AnnoIds |->
                         IF i \in missing
                         THEN [k \in DOMAIN current[i] |->
                                  get_roots(materialization_data.supervoxel_id[i][k],
                                            mat_metadata.last_updated_time_stamp)]
                         ELSE current[i]]
    IN  IF materialization_time_stamp.exc # "" THEN Raise(materialization_time_stamp.exc)
        ELSE IF fault = "chunkedgraph" THEN Raise("ChunkedGraphError")
        ELSE IF missing = {} THEN NoneData
        ELSE Data(merged, materialization_data.supervoxel_id, looked_up)

\* The time stamp of the metadata is parsed, the stored root ids are merged with the
\* frame, and the rows whose root-id columns are all null get root ids at the
\* materialization time.  None when no row was updated.
get_new_root_ids(materialization_data, fault) ==
    LET materialization_time_stamp ==
            strptime(isoformat(mat_metadata.materialization_time_stamp,
                               mat_metadata.microsecond))
        df == root_ids_df(materialization_data, fault)
        merged == df.ids
        current == df.root_id
        missing == MissingRootRows(merged, current)
        looked_up == [i \in AnnoIds |->
                         IF i \in missing
                         THEN [k \in DOMAIN current[i] |->
                                  get_roots(materialization_data.supervoxel_id[i][k],
                                            materialization_time_stamp.time)]
                         ELSE current[i]]
    IN  IF materialization_time_stamp.exc # "" THEN Raise(materialization_time_stamp.exc)
        ELSE IF fault = "chunkedgraph" THEN Raise("ChunkedGraphError")
        ELSE IF missing = {} THEN NoneData
        ELSE Data(merged, materialization_data.supervoxel_id, looked_up)

\* upsert(session, data, SegmentationModel): insert or update keyed by the row id
upsert(table, records) ==
    [i \in AnnoIds |-> IF i \in records.ids
                       THEN SegRow(records.supervoxel_id[i], records.root_id[i])
                       ELSE table[i]]

\* mutant: the upsert is issued whatever the root-id step returned
update_segmentation_table_AlwaysUpsert(materialization_data, fault) ==
    IF fault = "upsert"
    THEN [status |-> "None", seg |-> seg, failed |-> TRUE]
    ELSE [status |-> "updated", seg |-> upsert(seg, materialization_data), failed |-> FALSE]

\* [status, seg, failed]: a store error of the upsert is caught and logged, the function
\* then returns None and the table is as it was
update_segmentation_table(materialization_data, fault) ==
    IF materialization_data.none
    THEN [status |-> "empty", seg |-> seg, failed |-> FALSE]
    ELSE IF fault = "upsert"
    THEN [status |-> "None", seg |-> seg, failed |-> TRUE]
    ELSE [status |-> "updated", seg |-> upsert(seg, materialization_data), failed |-> FALSE]

\* the outcome of one attempt
Outcome(raised, exception, failed_step, result, table) ==
    [raised |-> raised, exception |-> exception, failed_step |-> failed_step,
     result |-> result, seg |-> table]

\* mutant: an attempt that raises undoes what the workflow has written so far
live_update_task_RollbackAll(chunk, fault) ==
    LET missing_data == get_annotations_with_missing_supervoxel_ids(chunk, fault)
        supervoxel_data == get_cloudvolume_supervoxel_ids(missing_data, fault)
        root_id_data == get_new_root_ids(supervoxel_data, fault)
        result == update_segmentation_table(root_id_data, fault)
    IN  IF missing_data.exc # ""
        THEN Outcome(TRUE, missing_data.exc, "scan", "", seg_at_start)
        ELSE IF supervoxel_data.exc # ""
        THEN Outcome(TRUE, supervoxel_data.exc, "supervoxel", "", seg_at_start)
        ELSE IF root_id_data.exc # ""
        THEN Outcome(TRUE, root_id_data.exc, "root", "", seg_at_start)
        ELSE IF result.failed
        THEN Outcome(FALSE, "SQLAlchemyError", "upsert", result.status, result.seg)
        ELSE IF fault = "root_read"
        THEN Outcome(FALSE, "SQLAlchemyError", "root_read", result.status, result.seg)
        ELSE Outcome(FALSE, "", "", result.status, result.seg)

\* The body of live_update_task: the four steps in order.  raised says that an exception
\* reached the except clause of the task; exception and failed_step name the exception
\* raised inside the pipeline during the attempt and the step it was raised in, whether
\* it reached the task or was caught inside the step.
live_update_task(chunk, fault) ==
    LET missing_data == get_annotations_with_missing_supervoxel_ids(chunk, fault)
        supervoxel_data == get_cloudvolume_supervoxel_ids(missing_data, fault)
        root_id_data == get_new_root_ids(supervoxel_data, fault)
        result == update_segmentation_table(root_id_data, fault)
    IN  IF missing_data.exc # ""
        THEN Outcome(TRUE, missing_data.exc, "scan", "", seg)
        ELSE IF supervoxel_data.exc # ""
        THEN Outcome(TRUE, supervoxel_data.exc, "supervoxel", "", seg)
        ELSE IF root_id_data.exc # ""
        THEN Outcome(TRUE, root_id_data.exc, "root", "", seg)
        ELSE IF result.failed
        THEN Outcome(FALSE, "SQLAlchemyError", "upsert", result.status, result.seg)
        ELSE IF fault = "root_read"
        THEN Outcome(FALSE, "SQLAlchemyError", "root_read", result.status, result.seg)
        ELSE Outcome(FALSE, "", "", result.status, result.seg)

\* ------------------------------------------------------------------ live update: the workflow of one table
\* chain(create_missing_segmentation_table, chord([live_update_task per chunk], fin),
\*       update_metadata)
\* A task of the chord header is pending (not sent yet), queued, retry (sent again,
\* due after countdown seconds), success or failure.
PendingTask ==
    [status |-> "pending", retries |-> 0, countdown |-> 0,
     result |-> "", exception |-> "", failed_step |-> ""]

Terminal(task) == task.status \in {"success", "failure"}

\* The task after an attempt.  An exception that reaches the except clause is handed
\* to self.retry(exc=e, countdown=3): the task is sent again with one more retry, or,
\* once max_retries is used up, the exception is raised and the task has failed.
AfterAttempt(task, out) ==
    IF out.raised
    THEN IF task.retries < max_retries
         THEN [status |-> "retry", retries |-> task.retries + 1, countdown |-> countdown,
               result |-> "", exception |-> out.exception, failed_step |-> out.failed_step]
         ELSE [status |-> "failure", retries |-> task.retries, countdown |-> 0,
               result |-> "", exception |-> out.exception, failed_step |-> out.failed_step]
    ELSE [status |-> "success", retries |-> task.retries, countdown |-> 0,
          result |-> out.result, exception |-> out.exception, failed_step |-> out.failed_step]

Chunks == chunk_supervoxel_ids_task(mat_metadata)

\* start_materialization: the metadata and the chunks of the table, the chain is sent.
\* The run starts off a whole second; a start on a whole second, after which every
\* attempt raises ValueError before its root-id lookup, is part of the attempt harness.
StartMaterialization ==
    /\ wf_pc = "start"
    /\ \E microsecond \in Microseconds \ {0} :
           mat_metadata' = get_materialization_info(microsecond)
    /\ chunk_tasks' = [c \in DOMAIN chunk_supervoxel_ids_task(mat_metadata') |-> PendingTask]
    /\ wf_pc' = "create_missing_segmentation_table"
    /\ UNCHANGED <<queryVars, requestVars, annotations, seg, seg_at_start, seg_metadata,
                   twiceVars, frozenVars>>

\* create_missing_segmentation_table: table and metadata row are created when the
\* metadata row is missing (a failed commit is rolled back and logged); the task
\* returns and the header of the chord is sent
CreateMissingSegmentationTable ==
    /\ wf_pc = "create_missing_segmentation_table"
    /\ IF ~seg_metadata.exists
       THEN \E committed \in BOOLEAN :
                seg_metadata' = IF committed
                                THEN [exists |-> TRUE, last_updated |-> NaT]
                                ELSE seg_metadata
       ELSE UNCHANGED seg_metadata
    /\ chunk_tasks' = [c \in DOMAIN chunk_tasks |-> [chunk_tasks[c] EXCEPT !.status = "queued"]]
    /\ wf_pc' = "chord"
    /\ UNCHANGED <<queryVars, requestVars, annotations, seg, seg_at_start, mat_metadata,
                   twiceVars, frozenVars>>

\* one attempt of live_update_task on chunk c
LiveUpdateTask(c) ==
    /\ wf_pc = "chord"
    /\ chunk_tasks[c].status \in {"queued", "retry"}
    /\ \E fault \in Faults :
           LET out == live_update_task(Chunks[c], fault)
           IN  /\ seg' = out.seg
               /\ chunk_tasks' = [chunk_tasks EXCEPT ![c] = AfterAttempt(@, out)]
    /\ UNCHANGED <<queryVars, requestVars, annotations, seg_at_start, seg_metadata,
                   mat_metadata, wf_pc, twiceVars, frozenVars>>

\* the body of the chord, fin: called when every task of the header has succeeded
Fin ==
    /\ wf_pc = "chord"
    /\ \A c \in DOMAIN chunk_tasks : chunk_tasks[c].status = "success"
    /\ wf_pc' = "update_metadata"
    /\ UNCHANGED <<queryVars, requestVars, tableVars, chunk_tasks, twiceVars, frozenVars>>

\* a task of the header has failed: the body of the chord is not called, it is set to
\* failed with a ChordError, and the rest of the chain never runs
ChordError ==
    /\ wf_pc = "chord"
    /\ \A c \in DOMAIN chunk_tasks : Terminal(chunk_tasks[c])
    /\ \E c \in DOMAIN chunk_tasks : chunk_tasks[c].status = "failure"
    /\ wf_pc' = "chord_error"
    /\ UNCHANGED <<queryVars, requestVars, tableVars, chunk_tasks, twiceVars, frozenVars>>

\* update_metadata: the last-updated time of the table becomes the materialization time
UpdateMetadata ==
    /\ wf_pc = "update_metadata"
    /\ seg_metadata' = IF seg_metadata.exists
                       THEN [seg_metadata EXCEPT
                                !.last_updated = mat_metadata.materialization_time_stamp]
                       ELSE seg_metadata
    /\ wf_pc' = "done"
    /\ UNCHANGED <<queryVars, requestVars, annotations, seg, seg_at_start, mat_metadata,
                   chunk_tasks, twiceVars, frozenVars>>

\* ------------------------------------------------------------------ live update: one chunk processed twice
\* live_update_task run on the same chunk twice, no collaborator failing
FirstRun ==
    /\ twice_pc = "first"
    /\ seg' = live_update_task(twice_chunk, "none").seg
    /\ seg_after_first' = seg'
    /\ twice_pc' = "second"
    /\ UNCHANGED <<queryVars, requestVars, annotations, seg_at_start, seg_metadata,
                   mat_metadata, liveVars, twice_chunk, attempt, frozenVars>>

SecondRun ==
    /\ twice_pc = "second"
    /\ seg' = live_update_task(twice_chunk, "none").seg
    /\ twice_pc' = "done"
    /\ UNCHANGED <<queryVars, requestVars, annotations, seg_at_start, seg_metadata,
                   mat_metadata, liveVars, twice_chunk, seg_after_first, attempt, frozenVars>>

\* ------------------------------------------------------------------ live update: one attempt, step by step
\* the position columns of a synapse table: two bound spatial points
SynapsePositionColumns == <<"pre_pt_position", "post_pt_position">>

\* the steps of live_update_task, in the order of its body
Steps == <<"scan", "supervoxel", "root", "upsert">>

\* The record of one attempt of live_update_task on a chunk.  pc is the step to run next
\* ("returned" and "raised" once the attempt is over), data the value the last step
\* returned, steps the steps run so far, frame the root_ids_df of the root-id step before
\* its lookup, sent the rows whose supervoxel ids went to the chunked graph, time_stamp
\* the time their root ids were requested at, result the status of the upsert step.
NewAttempt(chunk, fault) ==
    [pc |-> "scan", chunk |-> chunk, fault |-> fault, data |-> NoneData, steps |-> <<>>,
     frame |-> [ids |-> {}, root_id |-> NoColumns], sent |-> {}, time_stamp |-> NaT,
     exception |-> "", result |-> ""]

AttemptFrame == <<queryVars, requestVars, annotations, seg_at_start, seg_metadata,
                  mat_metadata, liveVars, twice_chunk, seg_after_first, twice_pc, frozenVars>>

\* missing_data = get_annotations_with_missing_supervoxel_ids(mat_metadata, chunk)
ScanStep ==
    /\ attempt.pc = "scan"
    /\ LET missing_data ==
               get_annotations_with_missing_supervoxel_ids(attempt.chunk, attempt.fault)
       IN  attempt' = [attempt EXCEPT
                          !.steps = Append(@, "scan"),
                          !.data = missing_data,
                          !.exception = missing_data.exc,
                          !.pc = IF missing_data.exc # "" THEN "raised" ELSE "supervoxel"]
    /\ UNCHANGED <<AttemptFrame, seg>>

\* mutant: the supervoxel ids are stored as soon as they are looked up
SupervoxelStep_Stores ==
    /\ attempt.pc = "supervoxel"
    /\ LET supervoxel_data == get_cloudvolume_supervoxel_ids(attempt.data, attempt.fault)
       IN  /\ attempt' = [attempt EXCEPT
                             !.steps = Append(@, "supervoxel"),
                             !.data = supervoxel_data,
                             !.exception = supervoxel_data.exc,
                             !.pc = IF supervoxel_data.exc # "" THEN "raised" ELSE "root"]
           /\ seg' = [i \in AnnoIds |->
                         IF i \in supervoxel_data.ids
                         THEN SegRow(supervoxel_data.supervoxel_id[i],
                                     IF seg[i] # NoRow THEN seg[i].root_id ELSE NullColumns)
                         ELSE seg[i]]
    /\ UNCHANGED AttemptFrame

\* supervoxel_data = get_cloudvolume_supervoxel_ids(missing_data, mat_metadata)
SupervoxelStep ==
    /\ attempt.pc = "supervoxel"
    /\ LET supervoxel_data == get_cloudvolume_supervoxel_ids(attempt.data, attempt.fault)
       IN  attempt' = [attempt EXCEPT
                          !.steps = Append(@, "supervoxel"),
                          !.data = supervoxel_data,
                          !.exception = supervoxel_data.exc,
                          !.pc = IF supervoxel_data.exc # "" THEN "raised" ELSE "root"]
    /\ UNCHANGED <<AttemptFrame, seg>>

\* root_id_data = get_new_root_ids(supervoxel_data, mat_metadata)
RootIdStep ==
    /\ attempt.pc = "root"
    /\ LET root_id_data == get_new_root_ids(attempt.data, attempt.fault)
           df == root_ids_df(attempt.data, attempt.fault)
           sent == IF root_id_data.exc # "" THEN {}
                   ELSE MissingRootRows(df.ids, df.root_id)
       IN  attempt' = [attempt EXCEPT
                          !.steps = Append(@, "root"),
                          !.data = root_id_data,
                          !.frame = df,
                          !.sent = sent,
                          !.time_stamp =
                              IF sent = {} THEN NaT
                              ELSE strptime(isoformat(mat_metadata.materialization_time_stamp,
                                                      mat_metadata.microsecond)).time,
                          !.exception = IF root_id_data.exc # "" THEN root_id_data.exc
                                        ELSE IF attempt.fault = "root_read"
                                        THEN "SQLAlchemyError" ELSE "",
                          !.pc = IF root_id_data.exc # "" THEN "raised" ELSE "upsert"]
    /\ UNCHANGED <<AttemptFrame, seg>>

\* result = update_segmentation_table(root_id_data, mat_metadata), and the task returns
UpsertStep ==
    /\ attempt.pc = "upsert"
    /\ LET result == update_segmentation_table(attempt.data, attempt.fault)
       IN  /\ seg' = result.seg
           /\ attempt' = [attempt EXCEPT
                             !.steps = Append(@, "upsert"),
                             !.result = result.status,
                             !.exception = IF result.failed THEN "SQLAlchemyError" ELSE @,
                             !.pc = "returned"]
    /\ UNCHANGED AttemptFrame

\* ------------------------------------------------------------------ version records
\* the versions stored when an operation starts; the latest day an operation runs at
MaxStoredVersions == 2
MaxDay == 1

\* CreateVirtualPublicVersionResource.post: the days that must remain, the days added
ExpiryThresholdDays == 1000
ExtensionDays == 36525

\* time in days
Days == 0..MaxDay
TableNames == {"synapse", "nucleus"}
VirtualName == "virtual"

\* An AnalysisVersion row; its id is its position in analysis_versions.  expires_on is
\* NaT when null, parent_version is 0 when null.
AnalysisVersion(ds, ts, ver, valid, expires, parent) ==
    [datastack |-> ds, time_stamp |-> ts, version |-> ver, valid |-> valid,
     expires_on |-> expires, parent_version |-> parent]

\* An AnalysisTable row
AnalysisTable(name, version_id) == [table_name |-> name, analysisversion_id |-> version_id]

NoOutcome == [op |-> "", status |-> 0, exception |-> "", now |-> 0]
Outcome200(op, now) == [op |-> op, status |-> 200, exception |-> "", now |-> now]
OutcomeAbort(op, status, now) == [op |-> op, status |-> status, exception |-> "", now |-> now]
OutcomeRaise(op, e, now) == [op |-> op, status |-> 500, exception |-> e, now |-> now]

\* order_by(AnalysisVersion.version.desc()).first().version, over every datastack
TopVersion(vs) == Max({0} \cup {vs[i].version : i \in DOMAIN vs})

NewVersionNumber(vs, analysis_version) ==
    IF analysis_version # 0 THEN analysis_version
    ELSE IF vs = <<>> THEN 1
    ELSE TopVersion(vs) + 1

\* create_new_version(mat_info): analysis_version 0 stands for None
CreateNewVersion ==
    /\ Len(analysis_versions) <= MaxStoredVersions
    /\ \E analysis_version \in 0..(MaxStoredVersions + 1), now \in Days :
           /\ analysis_versions' =
                  Append(analysis_versions,
                         AnalysisVersion(Datastack, now,
                                         NewVersionNumber(analysis_versions, analysis_version),
                                         TRUE, NaT, 0))
           /\ version_out' = Outcome200("create_new_version", now)
    /\ UNCHANGED <<queryVars, requestVars, tableVars, liveVars, twiceVars, snapshotVars, raceVars,
                   analysis_tables>>

\* create_new_version run by several workers at once.  Each task reads the top version
\* and adds its record in two statements, with no lock held between them; the
\* AnalysisVersion table takes any version number.
VersionTasks == 1..2
NewVersionTask(analysis_version) ==
    [pc |-> "start", analysis_version |-> analysis_version, new_version_number |-> 0, id |-> 0]

\* the task up to new_version_number: the supplied number or the query of the top version
ReadTopVersion(p) ==
    /\ version_tasks[p].pc = "start"
    /\ version_tasks' =
           [version_tasks EXCEPT
               ![p].new_version_number =
                   NewVersionNumber(analysis_versions, version_tasks[p].analysis_version),
               ![p].pc = "add"]
    /\ UNCHANGED <<queryVars, requestVars, tableVars, liveVars, twiceVars, versionVars,
                   snapshotVars>>

\* session.add(analysisversion); session.commit()
AddVersion(p) ==
    /\ version_tasks[p].pc = "add"
    /\ \E now \in Days :
           analysis_versions' =
               Append(analysis_versions,
                      AnalysisVersion(Datastack, now, version_tasks[p].new_version_number,
                                      TRUE, NaT, 0))
    /\ version_tasks' = [version_tasks EXCEPT ![p].id = Len(analysis_versions) + 1,
                                              ![p].pc = "done"]
    /\ UNCHANGED <<queryVars, requestVars, tableVars, liveVars, twiceVars, snapshotVars,
                   analysis_tables, version_out>>

\* str(datetime) handed to the DateTime column: the store parses the text back
StrOfTime(t) == [text |-> TRUE, value |-> t]
TimeValue(t) == [text |-> FALSE, value |-> t]
ColumnValue(v) == v.value

\* mutant: the expiration is replaced by a time counted from the day of the call
ExpirationTimestamp_FromNow(expires_on, now) ==
    IF expires_on - now < ExpiryThresholdDays
    THEN StrOfTime(now + ExtensionDays)
    ELSE TimeValue(now + ExpiryThresholdDays)

\* time_to_expire.days < 1000: the expiration plus 36525 days, else the expiration
ExpirationTimestamp(expires_on, now) ==
    IF expires_on - now < ExpiryThresholdDays
    THEN StrOfTime(expires_on + ExtensionDays)
    ELSE TimeValue(expires_on)

\* mutant: a failed commit is not rolled back
AfterCommit_NoRollback(committed, stored, pending) == pending

\* session.commit(): the rows added and changed in the session are stored; when the
\* commit fails, session.rollback() leaves the table as it was and the error is raised
AfterCommit(committed, stored, pending) == IF committed THEN pending ELSE stored

\* CreateVirtualPublicVersionResource.post
CreateVirtualVersion ==
    /\ Len(analysis_versions) <= MaxStoredVersions
    /\ \E target_version \in 1..(MaxStoredVersions + 1), tables_to_include \in SUBSET TableNames,
          now \in Days, committed \in BOOLEAN :
           LET op == "create_virtual"
               found == {i \in DOMAIN analysis_versions :
                            /\ analysis_versions[i].version = target_version
                            /\ analysis_versions[i].datastack = Datastack}
               id == CHOOSE i \in found : TRUE
               analysis_version == analysis_versions[id]
               included_tables == {k \in DOMAIN analysis_tables :
                                      /\ analysis_tables[k].analysisversion_id = id
                                      /\ analysis_tables[k].table_name \in tables_to_include}
               expiration_timestamp == ExpirationTimestamp(analysis_version.expires_on, now)
               virtual_id == Len(analysis_versions) + 1
               Refuse(out) == /\ version_out' = out
                              /\ UNCHANGED <<analysis_versions, analysis_tables>>
           IN  IF tables_to_include = {} THEN Refuse(OutcomeAbort(op, 400, now))
               ELSE IF found = {} THEN Refuse(OutcomeRaise(op, "NoResultFound", now))
               ELSE IF Cardinality(found) > 1
               THEN Refuse(OutcomeRaise(op, "MultipleResultsFound", now))
               ELSE IF ~analysis_version.valid THEN Refuse(OutcomeAbort(op, 404, now))
               ELSE IF included_tables = {} THEN Refuse(OutcomeAbort(op, 404, now))
               ELSE IF analysis_version.expires_on = NaT
               THEN Refuse(OutcomeRaise(op, "TypeError", now))
               ELSE /\ analysis_versions' =
                           AfterCommit(committed, analysis_versions,
                               Append([analysis_versions EXCEPT
                                          ![id].expires_on = ColumnValue(expiration_timestamp)],
                                      AnalysisVersion(VirtualName, analysis_version.time_stamp,
                                                      analysis_version.version, TRUE,
                                                      ColumnValue(expiration_timestamp), id)))
                    /\ analysis_tables' =
                           AfterCommit(committed, analysis_tables,
                               analysis_tables \o
                               [j \in 1..Cardinality(included_tables) |->
                                   AnalysisTable(
                                       analysis_tables[CHOOSE k \in included_tables :
                                           Cardinality({l \in included_tables : l < k}) = j - 1
                                       ].table_name,
                                       virtual_id)])
                    /\ version_out' = IF committed THEN Outcome200(op, now)
                                       ELSE OutcomeRaise(op, "SQLAlchemyError", now)
    /\ UNCHANGED <<queryVars, requestVars, tableVars, liveVars, twiceVars, snapshotVars, raceVars>>

\* ------------------------------------------------------------------ frozen materialization
\* source          [tables : name -> [valid, max_id], rows : id -> [valid, deleted]], the
\*                 rows being those of CopiedTable, each with its segmentation row
\* analysis_db     [exists, tables : the tables created in it, rows : the ids copied
\*                 into CopiedTable]
AlignedVolume == "volume"
CopiedTable == "synapse"

\* make_url(...): a URL object, not a string
make_url(database) == [is_str |-> FALSE, database |-> database]

\* uri.rpartition("/")[0]: a method of str, AttributeError on a URL object
rpartition(uri) ==
    IF uri.is_str THEN [exc |-> "", base |-> "base"] ELSE [exc |-> "AttributeError", base |-> ""]

\* create_analysis_sql_uri(sql_uri, aligned_volume, mat_version)
create_analysis_sql_uri(sql_uri, aligned_volume, mat_version) ==
    [exc |-> rpartition(sql_uri).exc, database |-> <<aligned_volume, mat_version>>]

\* get_analysis_info: one metadata dictionary per valid annotation table with a max id
get_analysis_info(src, analysis_version) ==
    [t \in {n \in TableNames : src.tables[n].valid /\ src.tables[n].max_id # 0} |->
        [aligned_volume |-> AlignedVolume, datastack |-> Datastack,
         annotation_table_name |-> t, max_id |-> src.tables[t].max_id,
         analysis_version |-> analysis_version]]

\* The result of a task called with the metadata of a table: the exception that left it
\* ("" when it returned) and the tables as it leaves them.
TaskResult(exc, db, vs, ts) ==
    [exc |-> exc, analysis_db |-> db, analysis_versions |-> vs, analysis_tables |-> ts]

\* create_analysis_database: sql_uri is the result of make_url, and rpartition is called
\* on it before the connection is opened
create_analysis_database(table_metadata) ==
    LET sql_uri == make_url(table_metadata.aligned_volume)
    IN  IF rpartition(sql_uri).exc # ""
        THEN TaskResult(rpartition(sql_uri).exc, analysis_db, analysis_versions, analysis_tables)
        ELSE TaskResult("", [analysis_db EXCEPT !.exists = TRUE],
                        analysis_versions, analysis_tables)

\* create_analysis_tables: create_analysis_sql_uri is called with the result of make_url
\* before any table is read; its result, one URL object, is then unpacked into two
\* names.  The loop over the tables is not reached.
create_analysis_tables(table_metadata) ==
    LET sql_uri == make_url(table_metadata.aligned_volume)
        analysis_sql_uri == create_analysis_sql_uri(sql_uri, table_metadata.aligned_volume,
                                                    table_metadata.analysis_version)
    IN  IF analysis_sql_uri.exc # ""
        THEN TaskResult(analysis_sql_uri.exc, analysis_db, analysis_versions, analysis_tables)
        ELSE TaskResult("ValueError", analysis_db, analysis_versions, analysis_tables)

\* the rows the query of insert_annotation_data selects:
\* filter((deleted <= utcnow) | (valid == True)), joined with the segmentation rows
SelectedForCopy(now) ==
    {i \in DOMAIN source.rows :
        \/ (source.rows[i].deleted # NaT /\ source.rows[i].deleted <= now)
        \/ source.rows[i].valid}

\* insert_annotation_data: get_analysis_table calls create_analysis_sql_uri with the
\* result of make_url before the rows are queried.  Past it, the selected rows are
\* inserted without their created, deleted and superceded_id values; an error of the
\* insert (a row id that is in the table already) is logged and nothing is inserted.
insert_annotation_data(table_metadata, now) ==
    LET sql_uri == make_url(table_metadata.aligned_volume)
        analysis_table == create_analysis_sql_uri(sql_uri, table_metadata.aligned_volume, 1)
    IN  IF analysis_table.exc # ""
        THEN TaskResult(analysis_table.exc, analysis_db, analysis_versions, analysis_tables)
        ELSE IF SelectedForCopy(now) \cap analysis_db.rows # {}
        THEN TaskResult("", analysis_db, analysis_versions, analysis_tables)
        ELSE TaskResult("", [analysis_db EXCEPT !.rows = @ \cup SelectedForCopy(now)],
                        analysis_versions, analysis_tables)

\* frozen_materialization: the metadata of the tables is read and one chain per table is
\* sent; create_new_version.s(mat_info) is a signature that is never sent
FrozenMaterialization ==
    /\ \A t \in DOMAIN frozen_pc : frozen_pc[t] = "idle"
    /\ LET mat_info == get_analysis_info(source, 1)
       IN  frozen_pc' = [t \in TableNames |->
                            IF t \in DOMAIN mat_info
                            THEN "create_analysis_database" ELSE "not_sent"]
    /\ UNCHANGED <<queryVars, requestVars, tableVars, liveVars, twiceVars, versionVars, raceVars,
                   source, analysis_db>>

\* the first task of the chain of table t; an exception ends the chain
CreateAnalysisDatabase(t) ==
    /\ frozen_pc[t] = "create_analysis_database"
    /\ LET result == create_analysis_database(get_analysis_info(source, 1)[t])
       IN  /\ analysis_db' = result.analysis_db
           /\ frozen_pc' = [frozen_pc EXCEPT ![t] = IF result.exc # "" THEN "chain_failed"
                                                     ELSE "create_analysis_tables"]
    /\ UNCHANGED <<queryVars, requestVars, tableVars, liveVars, twiceVars, versionVars, raceVars,
                   source>>

\* a task sent on its own with the metadata of a table
CallTask(op, result, now) ==
    /\ analysis_db' = result.analysis_db
    /\ analysis_versions' = result.analysis_versions
    /\ analysis_tables' = result.analysis_tables
    /\ version_out' = IF result.exc # "" THEN OutcomeRaise(op, result.exc, now)
                       ELSE Outcome200(op, now)
    /\ UNCHANGED <<queryVars, requestVars, tableVars, liveVars, twiceVars, source, frozen_pc,
                   raceVars>>

CallCreateAnalysisDatabase ==
    \E t \in DOMAIN get_analysis_info(source, 1) :
        CallTask("create_analysis_database",
                 create_analysis_database(get_analysis_info(source, 1)[t]), 0)

CallCreateAnalysisTables ==
    \E t \in DOMAIN get_analysis_info(source, 1) :
        CallTask("create_analysis_tables",
                 create_analysis_tables(get_analysis_info(source, 1)[t]), 0)

CallInsertAnnotationData ==
    /\ CopiedTable \in DOMAIN get_analysis_info(source, 1)
    /\ \E now \in Days :
           CallTask("insert_annotation_data",
                    insert_annotation_data(get_analysis_info(source, 1)[CopiedTable], now), now)

\* ------------------------------------------------------------------ inputs
RowRecords ==
    {r \in [created : Times, deleted : Times \cup {NaT}] :
        r.deleted = NaT \/ r.created < r.deleted}

\* row identifiers are serial: a later identifier is not created earlier
RowHistories ==
    UNION {{h \in [1..k -> RowRecords] :
               \A i \in 1..k : \A j \in 1..k : i < j => h[i].created <= h[j].created}
           : k \in 0..MaxRows}

\* version numbers are serial as well: time_stamp does not decrease with version
VersionSets(valids, stacks) ==
    UNION {{ {[version |-> i, time_stamp |-> h[i].time_stamp, valid |-> h[i].valid,
               datastack |-> h[i].datastack] : i \in 1..k}
             : h \in {g \in [1..k -> [time_stamp : Times, valid : valids, datastack : stacks]] :
                        \A i \in 1..k : \A j \in 1..k :
                            i < j => g[i].time_stamp <= g[j].time_stamp} }
           : k \in 0..MaxVersions}

PostIdle ==
    /\ pc = "start"
    /\ past_ver = NoVersion
    /\ future_ver = NoVersion
    /\ chosen_version = NoVersion
    /\ mat_df = NoneDF
    /\ prod_df = NoneDF
    /\ executed = {}
    /\ response = NoResponse

SymIdle ==
    /\ anchor_old = NaT
    /\ anchor_new = NaT
    /\ fwd_out = NoResponse
    /\ bwd_out = NoResponse

JoinIdle ==
    /\ joins = <<>>
    /\ join_out = ""

NoUserData ==
    [limit |-> NoLimit, filter_in_dict |-> NoneDict, filter_out_dict |-> NoneDict,
     filter_equal_dict |-> NoneDict]

RequestIdle ==
    /\ parsed_obj = NoUserData
    /\ user_data = NoUserData
    /\ req_df = <<>>
    /\ filtered = NotFiltered
    /\ req_pc = "idle"

TableIdle ==
    /\ annotations = <<>>
    /\ seg = <<>>
    /\ seg_at_start = <<>>
    /\ seg_metadata = NoSegMetadata
    /\ mat_metadata = NoMatMetadata

LiveIdle ==
    /\ chunk_tasks = <<>>
    /\ wf_pc = "idle"

TwiceIdle ==
    /\ twice_chunk = <<>>
    /\ seg_after_first = <<>>
    /\ twice_pc = "idle"
    /\ attempt = <<>>

VersionIdle ==
    /\ analysis_versions = <<>>
    /\ analysis_tables = <<>>
    /\ version_out = NoOutcome

SnapshotIdle ==
    /\ source = <<>>
    /\ analysis_db = <<>>
    /\ frozen_pc = <<>>

RaceIdle == version_tasks = <<>>

FrozenIdle ==
    /\ VersionIdle
    /\ SnapshotIdle
    /\ RaceIdle

OtherIdle ==
    /\ RequestIdle
    /\ TableIdle
    /\ LiveIdle
    /\ TwiceIdle
    /\ FrozenIdle

Init ==
    /\ user_timestamp \in Times
    /\ \/ /\ rows \in RowHistories
          /\ versions \in VersionSets({TRUE}, {Datastack})
       \/ /\ rows = <<>>
          /\ versions \in VersionSets(BOOLEAN, Datastacks)
    /\ PostIdle
    /\ SymIdle
    /\ JoinIdle
    /\ OtherIdle

Next ==
    \/ SelectVersions
    \/ MaterializedQuery
    \/ ProductionQuery
    \/ Combine

Spec == Init /\ [][Next]_vars

\* ------------------------------------------------------------------ reconciliation in both directions
InitSym ==
    /\ rows \in RowHistories
    /\ user_timestamp \in Times
    /\ anchor_old \in {t \in Times : t < user_timestamp}
    /\ anchor_new \in {t \in Times : t > user_timestamp}
    /\ versions = {[version |-> 1, time_stamp |-> anchor_old, valid |-> TRUE, datastack |-> Datastack],
                   [version |-> 2, time_stamp |-> anchor_new, valid |-> TRUE, datastack |-> Datastack]}
    /\ fwd_out = NoResponse
    /\ bwd_out = NoResponse
    /\ PostIdle
    /\ JoinIdle
    /\ OtherIdle

NextSym ==
    \/ ProjectForward
    \/ ProjectBackward

SpecSym == InitSym /\ [][NextSym]_vars

\* ------------------------------------------------------------------ reconciliation of filtered results
\* one valid version, before or after the requested time, is the anchor
InitCombine ==
    /\ rows \in RowHistories
    /\ user_timestamp \in Times
    /\ \E t \in Times \ {user_timestamp} :
           LET v == [version |-> 1, time_stamp |-> t, valid |-> TRUE, datastack |-> Datastack]
           IN  /\ versions = {v}
               /\ past_ver = IF t < user_timestamp THEN v ELSE NoVersion
               /\ future_ver = IF t > user_timestamp THEN v ELSE NoVersion
               /\ chosen_version = v
    /\ pc = "filtered_query"
    /\ mat_df = NoneDF
    /\ prod_df = NoneDF
    /\ executed = {}
    /\ response = NoResponse
    /\ SymIdle
    /\ JoinIdle
    /\ OtherIdle

NextCombine ==
    \/ FilteredQueries
    \/ Combine

SpecCombine == InitCombine /\ [][NextCombine]_vars

\* ------------------------------------------------------------------ join specifications
JoinSpecs == [column : ColumnSpecs, joined_column : ColumnSpecs]

InitJoins ==
    /\ joins \in UNION {[1..k -> JoinSpecs] : k \in 0..MaxJoins}
    /\ join_out = ""
    /\ versions = {}
    /\ rows = <<>>
    /\ user_timestamp = 0
    /\ PostIdle
    /\ SymIdle
    /\ OtherIdle

NextJoins == CheckJoins

SpecJoins == InitJoins /\ [][NextJoins]_vars

\* ------------------------------------------------------------------ request limit and user filters
QueryIdle ==
    /\ versions = {}
    /\ rows = <<>>
    /\ user_timestamp = 0
    /\ PostIdle
    /\ SymIdle
    /\ JoinIdle

\* the inclusion and exclusion filters, and the equality filters, a client can send
SetFilters == {f \in SUBSET (FilterColumns \X SUBSET Values) : IsMap(f)}
ValueFilters == {f \in SUBSET (FilterColumns \X Values) : IsMap(f)}
SetFilterDicts ==
    {NoneDict, Dict({})} \cup {Dict({<<QueryTable, f>>}) : f \in SetFilters}
ValueFilterDicts ==
    {NoneDict, Dict({})} \cup {Dict({<<QueryTable, f>>}) : f \in ValueFilters}

InitRequest ==
    /\ parsed_obj \in [limit : (0..MaxLimit) \cup {NoLimit},
                       filter_in_dict : SetFilterDicts,
                       filter_out_dict : SetFilterDicts,
                       filter_equal_dict : ValueFilterDicts]
    /\ user_data = parsed_obj
    /\ req_df \in UNION {[1..k -> [FilterColumns -> Values]] : k \in 0..MaxRows}
    /\ filtered = NotFiltered
    /\ req_pc = "limit"
    /\ QueryIdle
    /\ TableIdle
    /\ LiveIdle
    /\ TwiceIdle
    /\ FrozenIdle

NextRequest ==
    \/ ClampLimit
    \/ ApplyFilters

SpecRequest == InitRequest /\ [][NextRequest]_vars

\* ------------------------------------------------------------------ live update workflow
\* A stored supervoxel id or root id is null or the answer of an earlier lookup (0: the
\* volume had no data under the point then; a root id resolved at time 0); a root id is
\* stored only with its supervoxel id.  The rows of invalid annotations are never read.
StoredColumns ==
    {c \in [DOMAIN SchemaPositionColumns -> [supervoxel_id : {NaN, 0}, root_id : {NaN, 0}]] :
        \A k \in DOMAIN c : c[k].root_id # NaN => c[k].supervoxel_id # NaN}
StoredRows ==
    {NoRow} \cup {SegRow([k \in DOMAIN c |-> c[k].supervoxel_id],
                         [k \in DOMAIN c |-> c[k].root_id]) : c \in StoredColumns}

TablesAtStart ==
    /\ annotations \in [AnnoIds -> [valid : BOOLEAN]]
    /\ seg \in {t \in [AnnoIds -> StoredRows] :
                   \A i \in AnnoIds : ~annotations[i].valid => t[i] = NoRow}
    /\ seg_at_start = seg
    /\ seg_metadata \in {m \in {NoSegMetadata, [exists |-> TRUE, last_updated |-> 0]} :
                            ~m.exists => \A i \in AnnoIds : seg[i] = NoRow}

InitLive ==
    /\ TablesAtStart
    /\ mat_metadata = NoMatMetadata
    /\ chunk_tasks = <<>>
    /\ wf_pc = "start"
    /\ QueryIdle
    /\ RequestIdle
    /\ TwiceIdle
    /\ FrozenIdle

NextLive ==
    \/ StartMaterialization
    \/ CreateMissingSegmentationTable
    \/ \E c \in DOMAIN chunk_tasks : LiveUpdateTask(c)
    \/ Fin
    \/ ChordError
    \/ UpdateMetadata

SpecLive == InitLive /\ [][NextLive]_vars

\* ------------------------------------------------------------------ one chunk processed twice
InitTwice ==
    /\ TablesAtStart
    /\ \E microsecond \in Microseconds : mat_metadata = get_materialization_info(microsecond)
    /\ twice_chunk \in {chunk_supervoxel_ids_task(mat_metadata)[c] :
                           c \in DOMAIN chunk_supervoxel_ids_task(mat_metadata)}
    /\ seg_after_first = <<>>
    /\ twice_pc = "first"
    /\ attempt = <<>>
    /\ QueryIdle
    /\ RequestIdle
    /\ LiveIdle
    /\ FrozenIdle

NextTwice ==
    \/ FirstRun
    \/ SecondRun

SpecTwice == InitTwice /\ [][NextTwice]_vars

\* ------------------------------------------------------------------ one attempt, step by step
\* the rows a synapse table may hold when the attempt starts, as StoredRows for the two
\* position columns
SynapseStoredColumns ==
    {c \in [DOMAIN SynapsePositionColumns -> [supervoxel_id : {NaN, 0}, root_id : {NaN, 0}]] :
        \A k \in DOMAIN c : c[k].root_id # NaN => c[k].supervoxel_id # NaN}
SynapseStoredRows ==
    {NoRow} \cup {SegRow([k \in DOMAIN c |-> c[k].supervoxel_id],
                         [k \in DOMAIN c |-> c[k].root_id]) : c \in SynapseStoredColumns}

InitAttempt ==
    /\ annotations \in [AnnoIds -> [valid : BOOLEAN]]
    /\ seg \in {t \in [AnnoIds -> SynapseStoredRows] :
                   \A i \in AnnoIds : ~annotations[i].valid => t[i] = NoRow}
    /\ seg_at_start = seg
    /\ seg_metadata = IF \A i \in AnnoIds : seg[i] = NoRow THEN NoSegMetadata
                      ELSE [exists |-> TRUE, last_updated |-> 0]
    /\ \E microsecond \in Microseconds :
           mat_metadata = [get_materialization_info(microsecond) EXCEPT
                              !.position_columns = SynapsePositionColumns]
    /\ \E c \in DOMAIN chunk_supervoxel_ids_task(mat_metadata), fault \in Faults :
           attempt = NewAttempt(chunk_supervoxel_ids_task(mat_metadata)[c], fault)
    /\ twice_chunk = <<>>
    /\ seg_after_first = <<>>
    /\ twice_pc = "idle"
    /\ QueryIdle
    /\ RequestIdle
    /\ LiveIdle
    /\ FrozenIdle

NextAttempt ==
    \/ ScanStep
    \/ SupervoxelStep
    \/ RootIdStep
    \/ UpsertStep

SpecAttempt == InitAttempt /\ [][NextAttempt]_vars

\* ------------------------------------------------------------------ version records
\* The versions stored before: frozen versions of the datastack with serial version
\* numbers, valid or not, with an expiration or none, each with the tables frozen in it.
StoredExpirations == {NaT, 0, ExpiryThresholdDays - 1, ExpiryThresholdDays}

StoredVersions ==
    UNION {[1..k -> [valid : BOOLEAN, expires_on : StoredExpirations, tables : SUBSET TableNames]]
           : k \in 0..MaxStoredVersions}

\* the AnalysisTable rows of the stored versions, in id order
RECURSIVE StoredTables(_, _)
StoredTables(h, k) ==
    IF k = 0 THEN <<>>
    ELSE StoredTables(h, k - 1)
         \o (IF "synapse" \in h[k].tables THEN <<AnalysisTable("synapse", k)>> ELSE <<>>)
         \o (IF "nucleus" \in h[k].tables THEN <<AnalysisTable("nucleus", k)>> ELSE <<>>)

InitVersions ==
    /\ \E h \in StoredVersions :
           /\ analysis_versions =
                  [i \in DOMAIN h |->
                      AnalysisVersion(Datastack, 0, i, h[i].valid, h[i].expires_on, 0)]
           /\ analysis_tables = StoredTables(h, Len(h))
    /\ version_out = NoOutcome
    /\ SnapshotIdle
    /\ RaceIdle
    /\ QueryIdle
    /\ RequestIdle
    /\ TableIdle
    /\ LiveIdle
    /\ TwiceIdle

NextVersions ==
    \/ CreateNewVersion
    \/ CreateVirtualVersion

SpecVersions == InitVersions /\ [][NextVersions]_vars

\* ------------------------------------------------------------------ frozen materialization
\* the annotation tables; the database of the version may exist from an earlier run,
\* with some of the tables and no row
SourceRows ==
    UNION {[1..k -> [valid : BOOLEAN, deleted : Days \cup {NaT}]] : k \in 0..MaxRows}

InitFrozen ==
    /\ \E r \in SourceRows, v \in [TableNames -> BOOLEAN] :
           source = [tables |-> [n \in TableNames |->
                                    [valid |-> v[n],
                                     max_id |-> IF n = CopiedTable THEN Len(r) ELSE 1]],
                     rows |-> r]
    /\ analysis_db \in {[exists |-> FALSE, tables |-> {}, rows |-> {}]}
                        \cup {[exists |-> TRUE, tables |-> ts, rows |-> {}] :
                                 ts \in SUBSET TableNames}
    /\ frozen_pc = [t \in TableNames |-> "idle"]
    /\ VersionIdle
    /\ RaceIdle
    /\ QueryIdle
    /\ RequestIdle
    /\ TableIdle
    /\ LiveIdle
    /\ TwiceIdle

NextFrozen ==
    \/ FrozenMaterialization
    \/ \E t \in TableNames : CreateAnalysisDatabase(t)
    \/ CallCreateAnalysisDatabase
    \/ CallCreateAnalysisTables
    \/ CallInsertAnnotationData

SpecFrozen == InitFrozen /\ [][NextFrozen]_vars

\* ------------------------------------------------------------------ concurrent create_new_version
InitRace ==
    /\ \E h \in StoredVersions :
           /\ analysis_versions =
                  [i \in DOMAIN h |->
                      AnalysisVersion(Datastack, 0, i, h[i].valid, h[i].expires_on, 0)]
           /\ analysis_tables = StoredTables(h, Len(h))
    /\ version_out = NoOutcome
    /\ version_tasks \in [VersionTasks -> {NewVersionTask(a) : a \in 0..(MaxStoredVersions + 1)}]
    /\ SnapshotIdle
    /\ QueryIdle
    /\ RequestIdle
    /\ TableIdle
    /\ LiveIdle
    /\ TwiceIdle

NextRace ==
    \/ \E p \in VersionTasks : ReadTopVersion(p)
    \/ \E p \in VersionTasks : AddVersion(p)

SpecRace == InitRace /\ [][NextRace]_vars

\* ------------------------------------------------------------------ properties
\* the rows that exist at time ts: created(R) <= ts and (deleted(R) is null or ts < deleted(R))
VisibleAt(ts) ==
    {i \in DOMAIN rows : Created(i) <= ts /\ (Deleted(i) = NaT \/ ts < Deleted(i))}

Finished == pc = "done"
Returned == pc = "done" /\ response.status = 200
ChosenTs == chosen_version.time_stamp
Forward == chosen_version # NoVersion /\ ChosenTs < user_timestamp
InWindow(t) == ChosenTs < t /\ t < user_timestamp

\* C1: a live query at a time strictly between two adjacent valid versions returns
\* exactly the rows R with created(R) <= T and (deleted(R) is null or T < deleted(R));
\* stated of the requests that return a result.
C1_TemporalCorrectness ==
    (Returned /\ past_ver # NoVersion /\ future_ver # NoVersion)
        => Ids(response.df) = VisibleAt(user_timestamp)

\* C2: for the same row history, projecting forward from an older anchor and projecting
\* backward from a newer anchor produce the same set of row identifiers.
\* Stated for the row histories without an event at the requested time or at an anchor
\* time, where the forward projection returns the rows that exist at the requested time.
C2_Symmetry ==
    (/\ fwd_out.status = 200
     /\ bwd_out # NoResponse
     /\ \A i \in DOMAIN rows :
            {Created(i), Deleted(i)} \cap {anchor_old, user_timestamp, anchor_new} = {})
        => /\ bwd_out.status = 200
           /\ Ids(bwd_out.df) = Ids(fwd_out.df)

\* C3: the combined result never holds two rows with the same row identifier.
C3_NoDuplicateIds ==
    Returned => \A i \in RowIds : response.df.n[i] <= 1

\* C4: projecting forward, a row created and deleted strictly inside the window between
\* the anchor time and the requested time is absent from the combined result.
C4_CreatedAndDeletedInWindowAbsent ==
    (Returned /\ Forward)
        => \A i \in DOMAIN rows :
               (InWindow(Created(i)) /\ Deleted(i) # NaT /\ InWindow(Deleted(i)))
                   => response.df.n[i] = 0

\* C4 witness: a forward query with a snapshot result and a delta result has returned,
\* and the table holds a row created and deleted strictly inside the window.
C4_Witness ==
    /\ Returned
    /\ Forward
    /\ ~mat_df.none
    /\ ~prod_df.none
    /\ \E i \in DOMAIN rows :
           InWindow(Created(i)) /\ Deleted(i) # NaT /\ InWindow(Deleted(i))

\* C5: on every return path the result holds none of the bookkeeping columns
\* created, deleted, superceded_id.
C5_NoBookkeepingColumns ==
    Returned => response.df.cols \cap {CreatedCol, DeletedCol, SupercededCol} = {}

\* C6 as stated: with a past and a future valid version, the anchor is the one whose
\* time is closer to the requested time.
C6_AnchorIsCloser ==
    (pc # "start" /\ past_ver # NoVersion /\ future_ver # NoVersion)
        => \A v \in {past_ver, future_ver} :
               (IF ChosenTs < user_timestamp THEN user_timestamp - ChosenTs
                                              ELSE ChosenTs - user_timestamp)
               <= (IF v.time_stamp < user_timestamp THEN user_timestamp - v.time_stamp
                                                     ELSE v.time_stamp - user_timestamp)

\* C6 amended: the anchor is the nearest-past valid version whenever one exists, whatever
\* the distances; the nearest-future valid version is the anchor only when none exists.
C6_AnchorIsPastWhenPresent ==
    /\ (pc # "start" /\ past_ver # NoVersion) => chosen_version = past_ver
    /\ (pc # "start" /\ past_ver = NoVersion /\ future_ver # NoVersion)
           => chosen_version = future_ver

\* C6 witness: both versions exist, the future one is strictly closer, an anchor is chosen.
C6_Witness ==
    /\ pc = "materialized_query"
    /\ past_ver # NoVersion
    /\ future_ver # NoVersion
    /\ future_ver.time_stamp - user_timestamp < user_timestamp - past_ver.time_stamp

\* C7: get_closest_versions returns as past version a valid version of the datastack of
\* greatest time strictly before T (none when there is none) and as future version one of
\* smallest time strictly after T; an invalid version, a version of another datastack and
\* a version at time T are never returned.
C7_ClosestVersions ==
    pc # "start" =>
        LET own == {v \in versions : v.valid /\ v.datastack = Datastack}
            before == {v \in own : v.time_stamp < user_timestamp}
            after == {v \in own : v.time_stamp > user_timestamp}
        IN  /\ IF before = {} THEN past_ver = NoVersion
               ELSE /\ past_ver \in before
                    /\ \A w \in before : w.time_stamp <= past_ver.time_stamp
            /\ IF after = {} THEN future_ver = NoVersion
               ELSE /\ future_ver \in after
                    /\ \A w \in after : w.time_stamp >= future_ver.time_stamp

\* C7 witness: a past version was returned although a version nearer to T exists that is
\* invalid, of another datastack, or at time T itself.
C7_Witness ==
    /\ pc # "start"
    /\ past_ver # NoVersion
    /\ \E v \in versions :
           /\ v.time_stamp > past_ver.time_stamp
           /\ v.time_stamp <= user_timestamp
           /\ (~v.valid \/ v.datastack # Datastack \/ v.time_stamp = user_timestamp)

\* C8: with neither a past nor a future valid version the request ends in an error that
\* is a service-state error (5xx) and not a user error (4xx), and no query was executed.
C8_NoAnchorIsServiceError ==
    (Finished /\ past_ver = NoVersion /\ future_ver = NoVersion)
        => /\ response.status >= 500
           /\ executed = {}

\* C9: when the persisted row count of the anchor snapshot is zero and no delta query is
\* issued, the request returns an empty result and does not end in an error.
C9_ZeroRowCountReturnsEmpty ==
    (Finished /\ chosen_version # NoVersion /\ MatRowCount(ChosenTs) = 0
              /\ "prod" \notin executed)
        => /\ response.status = 200
           /\ NumRows(response.df) = 0

\* C10: a join specification naming a column that ends in root_id, given as a string or
\* inside a list, is rejected with an invalid-query error (400).
JoinNamesRootId(j) ==
    \E col \in {j.column, j.joined_column} :
        \E k \in DOMAIN col.names : EndsWithRootId(col.names[k])

C10_RootIdJoinRejected ==
    (join_out # "" /\ \E k \in DOMAIN joins : JoinNamesRootId(joins[k]))
        => join_out = "abort400"

\* a row satisfies the filters of the request: the inclusion, the exclusion and the
\* equality filters, each read from its own dictionary (an absent dictionary filters
\* nothing)
Satisfies(r, ud) ==
    /\ \A it \in ud.filter_in_dict.items : \A cv \in it[2] : r[cv[1]] \in cv[2]
    /\ \A it \in ud.filter_out_dict.items : \A cv \in it[2] : r[cv[1]] \notin cv[2]
    /\ \A it \in ud.filter_equal_dict.items : \A cv \in it[2] : r[cv[1]] = cv[2]

\* C11: apply_filters returns exactly the rows of the frame that satisfy every inclusion
\* filter, every exclusion filter (filter_out_dict) and every equality filter, for any
\* combination of present and absent filter dictionaries: it does not raise, keeps no row
\* that violates a filter and removes no row that satisfies them all.
C11_FiltersRespected ==
    req_pc = "done" =>
        LET Keeps(r) == Satisfies(r, user_data)
        IN  /\ filtered.exc = ""
            /\ filtered.df = SelectSeq(req_df, Keeps)

\* C12: the limit in effect is the smaller of the requested limit and the server ceiling,
\* and the ceiling when no limit was requested; a requested limit above the ceiling is
\* replaced by the ceiling and the request goes on.
C12_LimitClamped ==
    req_pc \in {"apply_filters", "done"} =>
        /\ user_data.limit = IF parsed_obj.limit = NoLimit THEN QUERY_LIMIT_SIZE
                             ELSE IF parsed_obj.limit <= QUERY_LIMIT_SIZE THEN parsed_obj.limit
                             ELSE QUERY_LIMIT_SIZE
        /\ user_data.limit <= QUERY_LIMIT_SIZE

\* C12 witness: a limit above the ceiling was requested and the request has gone on to
\* its end.
C12_Witness ==
    /\ req_pc = "done"
    /\ parsed_obj.limit > QUERY_LIMIT_SIZE

\* C13: live_update_task run twice on the same chunk, with the same annotations and the
\* same answers of the services, leaves the segmentation table after the second run as it
\* was after the first: no row is added or lost (the table holds one row per id, the id
\* being its key) and no column that was set after the first run is null after the second.
C13_IdempotentUpsert ==
    twice_pc = "done" =>
        /\ seg = seg_after_first
        /\ \A i \in AnnoIds :
               /\ seg_after_first[i] # NoRow => seg[i] # NoRow
               /\ \A k \in DOMAIN seg_after_first[i].root_id :
                      /\ seg_after_first[i].supervoxel_id[k] # NaN => seg[i].supervoxel_id[k] # NaN
                      /\ seg_after_first[i].root_id[k] # NaN => seg[i].root_id[k] # NaN

\* C13 witness: both runs are done and the first run has written to the table.
C13_Witness ==
    /\ twice_pc = "done"
    /\ seg_after_first # seg_at_start

\* C14: in every step of the live-update workflow a segmentation row stays, a supervoxel
\* id that is set keeps its value, and a root id that is set is not replaced by null nor
\* by a root id resolved at an older time.
C14_ResolvedColumnsKept ==
    [][\A i \in DOMAIN seg :
          seg[i] # NoRow =>
              /\ seg'[i] # NoRow
              /\ \A k \in DOMAIN seg[i].supervoxel_id :
                     /\ seg[i].supervoxel_id[k] # NaN
                            => seg'[i].supervoxel_id[k] = seg[i].supervoxel_id[k]
                     /\ seg[i].root_id[k] # NaN
                            => /\ seg'[i].root_id[k] # NaN
                               /\ seg'[i].root_id[k] >= seg[i].root_id[k]]_vars

\* C14 witness: an upsert has written a row whose supervoxel id and root id were set
\* before the workflow started; the row has its supervoxel id and a newer root id.
C14_Witness ==
    \E i \in DOMAIN seg : \E k \in DOMAIN seg[i].root_id :
        /\ seg_at_start[i] # NoRow
        /\ seg_at_start[i].root_id[k] # NaN
        /\ seg[i].root_id[k] > seg_at_start[i].root_id[k]
        /\ seg[i].supervoxel_id[k] = seg_at_start[i].supervoxel_id[k]

\* C15: an attempt in which an exception was raised inside the pipeline ends in a retry
\* with the fixed countdown, or in failure once the 6 retries are used up; no task is
\* retried more than 6 times.
C15_AnyExceptionRetried ==
    \A c \in DOMAIN chunk_tasks :
        /\ chunk_tasks[c].retries <= max_retries
        /\ chunk_tasks[c].status = "retry" => chunk_tasks[c].countdown = countdown
        /\ chunk_tasks[c].status = "failure" => chunk_tasks[c].retries = max_retries
        /\ chunk_tasks[c].exception # "" => chunk_tasks[c].status \in {"retry", "failure"}

\* C16: update_metadata does not start while a chunk task of the table is not terminal,
\* and once the workflow has come to rest with every chunk task terminal, by success or
\* by exhausted retries, update_metadata has run.
C16_FanInBarrier ==
    /\ wf_pc \in {"update_metadata", "done"}
           => \A c \in DOMAIN chunk_tasks : Terminal(chunk_tasks[c])
    /\ (/\ wf_pc \in {"done", "chord_error"}
        /\ \A c \in DOMAIN chunk_tasks : Terminal(chunk_tasks[c]))
           => wf_pc = "done"

\* a step that makes a chunk task fail for good changes neither the segmentation table
\* nor any other chunk task, and the workflow stays in the chord
C17_FailureStepIsLocal ==
    \A c \in DOMAIN chunk_tasks :
        (chunk_tasks[c].status # "failure" /\ chunk_tasks'[c].status = "failure")
            => /\ seg' = seg
               /\ wf_pc' = wf_pc
               /\ \A d \in DOMAIN chunk_tasks : d # c => chunk_tasks'[d] = chunk_tasks[d]

\* a step of a chunk task changes no row outside the id range of its chunk
C17_WritesAreLocal ==
    \A c \in DOMAIN chunk_tasks :
        chunk_tasks'[c] # chunk_tasks[c]
            => \A i \in DOMAIN seg : i \notin query_id_range(Chunks[c]) => seg'[i] = seg[i]

\* while a chunk task has failed and another is not terminal, the other is still due
\* (queued or sent again) and the step leaves the workflow in the chord
C17_OthersStillDue ==
    (\E c \in DOMAIN chunk_tasks : chunk_tasks[c].status = "failure")
        => \A d \in DOMAIN chunk_tasks :
               ~Terminal(chunk_tasks[d])
                   => /\ chunk_tasks[d].status \in {"queued", "retry"}
                      /\ wf_pc' = "chord"

\* C17: the step in which a chunk task fails for good changes neither the segmentation
\* table nor any other chunk task, no step of a chunk task changes a row outside the id
\* range of its chunk, and after a chunk task has failed every other chunk task that has
\* not come to its end is still due and the workflow is not left before it has.
C17_ChunkIndependence ==
    [][wf_pc = "chord" =>
          (C17_FailureStepIsLocal /\ C17_WritesAreLocal /\ C17_OthersStillDue)]_vars

\* C17 witness: one chunk task has failed for good, another has succeeded, and the rows
\* the other wrote are in the table.
C17_Witness ==
    \E c \in DOMAIN chunk_tasks : \E d \in DOMAIN chunk_tasks :
        /\ chunk_tasks[c].status = "failure"
        /\ chunk_tasks[d].status = "success"
        /\ chunk_tasks[d].result = "updated"
        /\ \E i \in query_id_range(Chunks[d]) : seg[i] # seg_at_start[i]

\* C18: a chunk whose id range holds no valid annotation completes on its first attempt:
\* once attempted its task is successful with status empty, was never retried, and has
\* written nothing.  Stated of the attempts in which no collaborator failed.
EmptyChunk(c) == \A i \in query_id_range(Chunks[c]) : ~annotations[i].valid

C18_EmptyChunkCompletes ==
    \A c \in DOMAIN chunk_tasks :
        (/\ EmptyChunk(c)
         /\ chunk_tasks[c].status \notin {"pending", "queued"}
         /\ chunk_tasks[c].exception \notin
                {"UnboundLocalError", "CloudVolumeError", "ChunkedGraphError", "SQLAlchemyError"})
            => /\ chunk_tasks[c].status = "success"
               /\ chunk_tasks[c].retries = 0
               /\ chunk_tasks[c].result = "empty"
               /\ \A i \in query_id_range(Chunks[c]) : seg[i] = seg_at_start[i]

\* C19: a chunk task whose upsert met a store failure is retried (or has failed once the
\* retries are used up): it is never successful.
C19_FailedUpsertNotSuccess ==
    \A c \in DOMAIN chunk_tasks :
        chunk_tasks[c].failed_step = "upsert" => chunk_tasks[c].status \in {"retry", "failure"}

\* the backward window: the anchor is later than the requested time
Backward == chosen_version # NoVersion /\ ChosenTs > user_timestamp
InBackWindow(t) == t # NaT /\ user_timestamp < t /\ t < ChosenTs
InForwardWindow(t) == t # NaT /\ ChosenTs < t /\ t < user_timestamp

\* C26: projecting forward with both results present, the combined result holds a
\* snapshot row unless the delta shows its deleted time strictly inside the window, and
\* holds a delta row iff its created time is strictly inside the window and its deleted
\* time is not; a delta row with both times outside the window is not in the result.
C26_ForwardProjection ==
    (Returned /\ Forward /\ ~mat_df.none /\ ~prod_df.none)
        => \A i \in DOMAIN rows :
               response.df.n[i] =
                   (IF prod_df.n[i] > 0 /\ InForwardWindow(Deleted(i)) THEN 0 ELSE mat_df.n[i])
                   + (IF InForwardWindow(Created(i)) /\ ~InForwardWindow(Deleted(i))
                      THEN prod_df.n[i] ELSE 0)

\* C27: projecting backward with a delta result, the reconciliation returns: the result
\* holds a snapshot row unless the delta shows its created time strictly inside the
\* window, and holds a delta row iff its deleted time is strictly inside the window and
\* its created time is not.
C27_BackwardProjection ==
    (Finished /\ Backward /\ ~prod_df.none)
        => /\ response.status = 200
           /\ \A i \in DOMAIN rows :
                  response.df.n[i] =
                      (IF prod_df.n[i] > 0 /\ InBackWindow(Created(i)) THEN 0 ELSE mat_df.n[i])
                      + (IF InBackWindow(Deleted(i)) /\ ~InBackWindow(Created(i))
                         THEN prod_df.n[i] ELSE 0)

\* C28: a snapshot result that is present with zero rows is returned, without the
\* bookkeeping columns and without an error, when there is no delta result; when there
\* is a delta result the reconciliation returns a result built from the delta alone.
C28_EmptySnapshot ==
    (Finished /\ ~mat_df.none /\ NumRows(mat_df) = 0)
        => /\ response.status = 200
           /\ IF prod_df.none
              THEN /\ NumRows(response.df) = 0
                   /\ response.df.cols = mat_df.cols \ {DeletedCol, SupercededCol}
              ELSE \A i \in RowIds : response.df.n[i] <= prod_df.n[i]

\* C29: when the snapshot result and the delta result are both absent the
\* reconciliation ends in the no-results error and returns no result set.
C29_NoResults ==
    (Finished /\ chosen_version # NoVersion /\ mat_df.none /\ prod_df.none)
        => /\ response.status = 400
           /\ response.error = "This query returned no results"
           /\ response.df.none

\* C29 witness: a request with an anchor has ended, no query returned a result, and the
\* table holds a row.
C29_Witness ==
    /\ Finished
    /\ chosen_version # NoVersion
    /\ mat_df.none
    /\ prod_df.none
    /\ executed = {}
    /\ rows # <<>>

\* C30: the delta query is executed iff the last-modified time of the table is later
\* than the anchor time or later than the requested time; when it is not executed the
\* delta result handed to the reconciliation is absent and a returned result holds the
\* rows of the snapshot result, no other.
C30_DeltaIssuedIffModified ==
    (pc \in {"combine", "done"} /\ chosen_version # NoVersion)
        => /\ "prod" \in executed
                  <=> (last_modified > ChosenTs \/ last_modified > user_timestamp)
           /\ "prod" \notin executed => prod_df.none
           /\ (Returned /\ "prod" \notin executed)
                  => \A i \in RowIds : response.df.n[i] = mat_df.n[i]

\* C30 witness: a request on a table with rows, not modified after the anchor time nor
\* after the requested time, has returned without a delta query.
C30_Witness ==
    /\ Returned
    /\ rows # <<>>
    /\ last_modified <= ChosenTs
    /\ last_modified <= user_timestamp
    /\ "prod" \notin executed
    /\ ~mat_df.none

\* C22: a Version record created by create_new_version is valid and its version number
\* is greater than that of every Version record stored before the call, and is 1 when
\* none was stored, whether or not the caller supplied a version number.
C22_NewVersionIsGreater ==
    [][(version_out'.op = "create_new_version" /\ analysis_versions' # analysis_versions)
          => LET created == analysis_versions'[Len(analysis_versions')]
             IN  /\ created.valid
                 /\ \A i \in DOMAIN analysis_versions :
                        created.version > analysis_versions[i].version
                 /\ analysis_versions = <<>> => created.version = 1]_vars

\* C25: the step that creates a derived version adds one Version record and changes, of
\* the records stored before, nothing but the expiration of the parent: the expiration
\* becomes 36525 days later when fewer than 1000 days remained and stays otherwise, so it
\* is never earlier than before; the derived record carries the version number and the
\* timestamp of the parent and references it.
C25_ParentOnlyExtended ==
    [][(version_out'.op = "create_virtual" /\ analysis_versions' # analysis_versions)
          => LET virtual == analysis_versions'[Len(analysis_versions')]
                 id == virtual.parent_version
                 parent == analysis_versions[id]
                 now == version_out'.now
             IN  /\ Len(analysis_versions') = Len(analysis_versions) + 1
                 /\ id \in DOMAIN analysis_versions
                 /\ \A i \in DOMAIN analysis_versions :
                        /\ analysis_versions'[i].datastack = analysis_versions[i].datastack
                        /\ analysis_versions'[i].version = analysis_versions[i].version
                        /\ analysis_versions'[i].time_stamp = analysis_versions[i].time_stamp
                        /\ analysis_versions'[i].valid = analysis_versions[i].valid
                        /\ analysis_versions'[i].parent_version
                               = analysis_versions[i].parent_version
                        /\ i # id => analysis_versions'[i].expires_on
                                         = analysis_versions[i].expires_on
                 /\ analysis_versions'[id].expires_on =
                        IF parent.expires_on - now < 1000
                        THEN parent.expires_on + 36525 ELSE parent.expires_on
                 /\ analysis_versions'[id].expires_on >= parent.expires_on
                 /\ virtual.version = parent.version
                 /\ virtual.time_stamp = parent.time_stamp]_vars

\* C25 witness: a derived version was created from a parent that had fewer than 1000
\* days left, and the parent now expires 36525 days later than the stored expirations.
C25_Witness ==
    /\ version_out.op = "create_virtual"
    /\ version_out.status = 200
    /\ \E j \in DOMAIN analysis_versions :
           /\ analysis_versions[j].parent_version # 0
           /\ analysis_versions[analysis_versions[j].parent_version].expires_on
                  = ExpiryThresholdDays - 1 + ExtensionDays

\* the tables frozen_materialization found to copy
ValidTables == DOMAIN get_analysis_info(source, 1)

\* every chain of the run has ended and no task was sent apart from the run
RunIsOver ==
    /\ frozen_pc # <<>>
    /\ ValidTables # {}
    /\ \A t \in DOMAIN frozen_pc : frozen_pc[t] \in {"not_sent", "chain_failed"}
    /\ version_out = NoOutcome

\* C21: create_analysis_database or create_analysis_tables called for a target that
\* exists already (the database; the database holding every valid table) returns
\* without an exception and creates nothing: the database, the Version rows and the
\* Table rows are as they were.
C21_CreationIsIdempotent ==
    [][(/\ frozen_pc' = frozen_pc
        /\ \/ version_out'.op = "create_analysis_database" /\ analysis_db.exists
           \/ /\ version_out'.op = "create_analysis_tables"
              /\ analysis_db.exists
              /\ \A n \in TableNames : source.tables[n].valid => n \in analysis_db.tables)
       => (/\ version_out'.exception = ""
           /\ UNCHANGED <<analysis_db, analysis_versions, analysis_tables>>)]_vars

\* C23: when a frozen run over N >= 1 valid tables is over, there is exactly one Version
\* row, and N Table rows that all reference it, one for each of the N table names.
C23_OneVersionPerRun ==
    RunIsOver =>
        /\ Len(analysis_versions) = 1
        /\ Len(analysis_tables) = Cardinality(ValidTables)
        /\ \A i \in DOMAIN analysis_tables : analysis_tables[i].analysisversion_id = 1
        /\ {analysis_tables[i].table_name : i \in DOMAIN analysis_tables} = ValidTables

\* C24: after insert_annotation_data at time now the frozen table holds exactly the
\* source rows that are valid and whose deleted time is null or later than now.
C24_CopiesLiveRows ==
    version_out.op = "insert_annotation_data" =>
        analysis_db.rows = {i \in DOMAIN source.rows :
                               /\ source.rows[i].valid
                               /\ \/ source.rows[i].deleted = NaT
                                  \/ source.rows[i].deleted > version_out.now}

\* C34: in every request that has chosen an anchor the anchor time differs from the
\* requested time; the delta query, when executed, reads the window from the earlier
\* to the later of the two, whose start is strictly before its end and is the anchor
\* time iff the anchor is older than the requested time; and no request ends in the
\* rejection of a query at a materialized timestamp.
C34_AnchorDiffersFromRequest ==
    /\ (pc # "start" /\ chosen_version # NoVersion) => ChosenTs # user_timestamp
    /\ "prod" \in executed =>
           \E start \in Times, end \in Times :
               /\ start < end
               /\ {start, end} = {ChosenTs, user_timestamp}
               /\ (start = ChosenTs) <=> (ChosenTs < user_timestamp)
               /\ Ids(prod_df) = CrudFilter(start, end)
    /\ response.error # "do not use live live query to query a materialized timestamp"

\* C34 witness: a valid version of the datastack is stored at the requested time itself,
\* another version was chosen as the anchor and the delta query was executed.
C34_Witness ==
    /\ pc = "combine"
    /\ "prod" \in executed
    /\ \E v \in versions :
           v.valid /\ v.datastack = Datastack /\ v.time_stamp = user_timestamp

\* C38: projecting forward with a delta result and no snapshot result (absent, or present
\* with zero rows), the reconciliation returns exactly the delta rows whose created time
\* is strictly inside the window and whose deleted time is not, each once, and the
\* result holds none of the columns created, deleted, superceded_id.
C38_ForwardDeltaOnly ==
    (Finished /\ Forward /\ (mat_df.none \/ NumRows(mat_df) = 0) /\ ~prod_df.none)
        => /\ response.status = 200
           /\ \A i \in RowIds :
                  response.df.n[i] =
                      (IF /\ prod_df.n[i] > 0
                          /\ InForwardWindow(Created(i))
                          /\ ~InForwardWindow(Deleted(i))
                       THEN 1 ELSE 0)
           /\ response.df.cols \cap {CreatedCol, DeletedCol, SupercededCol} = {}

\* C36: two create_new_version tasks of one datastack that are given no version number
\* and have both added their record, in whatever order their reads and their inserts
\* were made, have added records with different version numbers.
C36_ConcurrentVersionsDiffer ==
    \A p \in DOMAIN version_tasks, q \in DOMAIN version_tasks :
        (/\ p # q
         /\ version_tasks[p].pc = "done" /\ version_tasks[q].pc = "done"
         /\ version_tasks[p].analysis_version = 0 /\ version_tasks[q].analysis_version = 0)
            => analysis_versions[version_tasks[p].id].version
                   # analysis_versions[version_tasks[q].id].version

\* C37: when a frozen run is over, every row of the copied table that is valid and not
\* deleted is in the table of the version (once: the table is keyed by the row id).
C37_EveryRowCopiedOnce ==
    (RunIsOver /\ CopiedTable \in ValidTables)
        => \A i \in DOMAIN source.rows :
               (source.rows[i].valid /\ source.rows[i].deleted = NaT)
                   => i \in analysis_db.rows

\* C39: a request for a derived version either is answered with 200, and then has added
\* one Version record and at least one Table row, every added row referencing the new
\* record and naming a table of the parent, which is valid; or it is refused or raises,
\* and then no Version record, no Table row and no expiration has changed.
C39_AllOrNothing ==
    [][version_out'.op = "create_virtual"
          => IF version_out'.status = 200
             THEN LET virtual_id == Len(analysis_versions) + 1
                      virtual == analysis_versions'[virtual_id]
                      added == {k \in DOMAIN analysis_tables' : k > Len(analysis_tables)}
                  IN  /\ Len(analysis_versions') = virtual_id
                      /\ virtual.parent_version \in DOMAIN analysis_versions
                      /\ analysis_versions[virtual.parent_version].valid
                      /\ added # {}
                      /\ \A k \in added :
                             /\ analysis_tables'[k].analysisversion_id = virtual_id
                             /\ \E l \in DOMAIN analysis_tables :
                                    /\ analysis_tables[l].analysisversion_id
                                           = virtual.parent_version
                                    /\ analysis_tables[l].table_name
                                           = analysis_tables'[k].table_name
                      /\ \A l \in DOMAIN analysis_tables : analysis_tables'[l] = analysis_tables[l]
             ELSE UNCHANGED <<analysis_versions, analysis_tables>>]_vars

\* C39 witness: a request that passed every check and whose commit failed has raised,
\* and the tables hold a valid version with a table and no derived version.
C39_Witness ==
    /\ version_out.op = "create_virtual"
    /\ version_out.exception = "SQLAlchemyError"
    /\ \A i \in DOMAIN analysis_versions : analysis_versions[i].parent_version = 0
    /\ \E l \in DOMAIN analysis_tables :
           analysis_versions[analysis_tables[l].analysisversion_id].valid

\* C32: once the metadata of the run is taken it never changes, so every chunk task and
\* every retry reads the same materialization time stamp; and every root id a step
\* writes to the segmentation table was resolved at that time stamp.
C32_LookupsAtMaterializationTime ==
    [][/\ wf_pc # "start" => mat_metadata' = mat_metadata
       /\ \A i \in DOMAIN seg :
              seg'[i] # NoRow =>
                  \A k \in DOMAIN seg'[i].root_id :
                      (seg[i] = NoRow \/ seg'[i].root_id[k] # seg[i].root_id[k])
                          => seg'[i].root_id[k] = mat_metadata'.materialization_time_stamp]_vars

\* C32 witness: two chunk tasks have succeeded, one of them after a retry, and each has
\* written a root id resolved at the materialization time stamp to a row of its own.
C32_Witness ==
    /\ wf_pc = "chord"
    /\ \E c, d \in DOMAIN chunk_tasks :
           /\ c # d
           /\ chunk_tasks[c].status = "success" /\ chunk_tasks[c].retries > 0
           /\ chunk_tasks[d].status = "success"
           /\ \A e \in {c, d} : \E i \in query_id_range(Chunks[e]) :
                  /\ seg[i] # NoRow
                  /\ seg[i] # seg_at_start[i]
                  /\ \A k \in DOMAIN seg[i].root_id :
                         seg[i].root_id[k] = mat_metadata.materialization_time_stamp

\* C31: in the root-id step of an attempt, every row sent to the chunked graph is a row of
\* the frame whose root-id columns are all null; a row of the frame with a root-id column
\* that is not null is not sent, has the same root-id values in the frame the step
\* returns (its null ones included), and has them in the table after the attempt.
C31_OnlyAllNullRowsSent ==
    Len(attempt.steps) >= 3 =>
        /\ \A i \in attempt.sent :
               /\ i \in attempt.frame.ids
               /\ \A k \in DOMAIN attempt.frame.root_id[i] : attempt.frame.root_id[i][k] = NaN
        /\ \A i \in attempt.frame.ids :
               (\E k \in DOMAIN attempt.frame.root_id[i] : attempt.frame.root_id[i][k] # NaN)
                   => /\ i \notin attempt.sent
                      /\ attempt.frame.root_id[i] = seg_at_start[i].root_id
                      /\ i \in attempt.data.ids
                             => attempt.data.root_id[i] = attempt.frame.root_id[i]
                      /\ seg[i] # NoRow
                      /\ seg[i].root_id = attempt.frame.root_id[i]

\* C31 witness: the attempt has returned after an upsert; one row of the frame had one
\* root id set and one null and still has them, another row had none and has got both.
C31_Witness ==
    /\ attempt.pc = "returned"
    /\ attempt.result = "updated"
    /\ \E i, j \in attempt.frame.ids :
           /\ attempt.frame.root_id[i][1] # NaN
           /\ attempt.frame.root_id[i][2] = NaN
           /\ seg[i].root_id = attempt.frame.root_id[i]
           /\ j \in attempt.sent
           /\ \A k \in DOMAIN seg[j].root_id : seg[j].root_id[k] = attempt.time_stamp

\* C33: when the attempt has run its upsert step, the step reported 'empty' exactly when
\* the root-id step had sent no row to the chunked graph (and returned None); it then
\* wrote nothing and nothing was raised.  Otherwise the upsert was issued: the table is
\* the table of the start with every row of the returned frame put in, or, when the store
\* failed during the upsert, the table of the start.
C33_UpsertIffRowsUpdated ==
    attempt.pc = "returned" =>
        /\ attempt.result = "empty" <=> attempt.sent = {}
        /\ attempt.sent = {} <=> attempt.data.none
        /\ attempt.result = "empty" => seg = seg_at_start
        /\ attempt.result = "updated"
               => /\ attempt.fault # "upsert"
                  /\ seg = upsert(seg_at_start, attempt.data)
                  /\ \A i \in attempt.sent : seg[i] # seg_at_start[i]
        /\ attempt.result \notin {"empty", "updated"}
               => /\ attempt.fault = "upsert"
                  /\ seg = seg_at_start

\* C33 witness, zero rows updated: every row of the chunk had a root id, the upsert step
\* has reported 'empty' and the attempt has returned.
C33_Witness ==
    /\ attempt.pc = "returned"
    /\ attempt.result = "empty"
    /\ attempt.frame.ids # {}
    /\ attempt.exception = ""

\* C40: in every step of an attempt the steps run so far are the first steps of scan,
\* supervoxel lookup, root-id lookup, upsert, in that order and each once; the table
\* changes in the upsert step only; and an attempt that ended by an exception of one of
\* the first three steps has not run the upsert step and has left the table as it was
\* when the attempt started.
C40_OnlyUpsertWrites ==
    [][/\ attempt'.steps = SubSeq(Steps, 1, Len(attempt'.steps))
       /\ seg' # seg => attempt.pc = "upsert" /\ attempt'.steps = Steps
       /\ attempt'.pc = "raised"
              => /\ attempt'.steps # Steps
                 /\ attempt'.exception # ""
                 /\ seg' = seg_at_start
       /\ attempt.pc = "upsert"
              => seg' = live_update_task(attempt.chunk, attempt.fault).seg]_vars

\* C40 witness: the scan and the supervoxel lookup have run on a chunk with rows that
\* lack root ids, the root-id step has raised, and the table is as it was.
C40_Witness ==
    /\ attempt.pc = "raised"
    /\ attempt.steps = SubSeq(Steps, 1, 3)
    /\ attempt.fault = "chunkedgraph"
    /\ \E i \in query_id_range(attempt.chunk) : annotations[i].valid /\ seg[i] = NoRow
    /\ seg = seg_at_start

\* The rows of the id range of chunk c once its task has succeeded, told from the table
\* of the start alone: as they were when the upsert met a store failure or no row lacked
\* all its root ids; otherwise every row of the merged frame has its supervoxel ids (the
\* stored ones, looked up where null) and the rows that lacked all root ids have root
\* ids resolved at the materialization time stamp.
RowsAfterSuccess(c) ==
    LET valid == {i \in query_id_range(Chunks[c]) : annotations[i].valid}
        stored == IF chunk_tasks[c].failed_step = "root_read" THEN {}
                  ELSE {i \in valid : seg_at_start[i] # NoRow}
        merged == IF stored # {} THEN stored ELSE valid
        missing == {i \in merged :
                       i \in stored => \A k \in DOMAIN seg_at_start[i].root_id :
                                           seg_at_start[i].root_id[k] = NaN}
    IN  [i \in query_id_range(Chunks[c]) |->
            IF chunk_tasks[c].failed_step = "upsert" \/ missing = {} \/ i \notin merged
            THEN seg_at_start[i]
            ELSE SegRow([k \in DOMAIN mat_metadata.position_columns |->
                            IF seg_at_start[i] # NoRow /\ seg_at_start[i].supervoxel_id[k] # NaN
                            THEN seg_at_start[i].supervoxel_id[k]
                            ELSE download_point(i)],
                        [k \in DOMAIN mat_metadata.position_columns |->
                            IF i \in missing THEN mat_metadata.materialization_time_stamp
                            ELSE seg_at_start[i].root_id[k]])]

\* C35: the id ranges of the chunks of a run are disjoint, and at every moment of the run
\* the rows of each range are those of the start while the chunk's task has not succeeded
\* and, once it has, rows told from the table of the start and the task's own outcome:
\* the table does not depend on the order in which the tasks of the chunks took their
\* steps, and so neither does the table after all of them have succeeded.
C35_TableIndependentOfOrder ==
    \A c \in DOMAIN chunk_tasks :
        /\ \A d \in DOMAIN chunk_tasks :
               c # d => query_id_range(Chunks[c]) \cap query_id_range(Chunks[d]) = {}
        /\ IF chunk_tasks[c].status = "success"
           THEN LET after == RowsAfterSuccess(c)
                IN  \A i \in query_id_range(Chunks[c]) : seg[i] = after[i]
           ELSE \A i \in query_id_range(Chunks[c]) : seg[i] = seg_at_start[i]

\* C35 witness: the run is over, the tasks of both chunks have succeeded, one of them
\* after a retry, and each has written rows of its own range.
C35_Witness ==
    /\ wf_pc = "done"
    /\ Len(chunk_tasks) > 1
    /\ \E c \in DOMAIN chunk_tasks : chunk_tasks[c].retries > 0
    /\ \A c \in DOMAIN chunk_tasks :
           /\ chunk_tasks[c].status = "success"
           /\ chunk_tasks[c].result = "updated"
           /\ \E i \in query_id_range(Chunks[c]) : seg[i] # seg_at_start[i]

====
